---- MODULE Spec2Model ----
(***************************************************************************)
(* A model of myterm: the screen model driven by vte parser events         *)
(* (src/src/terminal.rs), the PTY conduit (src/src/pty.rs), the key        *)
(* encoder (src/src/input.rs) and the event loop (src/src/main.rs).        *)
(*                                                                         *)
(* Rows and columns are 0-based as in the source; TLA+ sequences are       *)
(* 1-based, so cell (row, col) of the source is cells[row + 1][col + 1].   *)
(* The vte crate is not part of the repository: the model starts at the    *)
(* Perform callbacks (print, execute, csi_dispatch, osc_dispatch,          *)
(* esc_dispatch) the parser invokes.  A CSI parameter list is the flat     *)
(* sequence of its u16 values.                                             *)
(***************************************************************************)
EXTENDS Integers, Sequences, FiniteSets, TLC

VARIABLES
    performer,   \* the TerminalPerformer: grid, cursor, rendition, modes, title
    status,      \* "running", or "panicked" once a Rust panic ended the process
    steps,       \* number of operations applied so far
    last,        \* the kind of the last operation applied ("new" before any)
    snap,        \* cursor and rendition at the last ESC 7, <<>> before any
    lastResize,  \* <<rows, cols>> passed to the last Grid::resize, <<>> before any
    pty,         \* the Pty: child_pid and master_file (Option fields)
    child,       \* the forked shell: "running" or "exited"
    pc,          \* MyTermApp::run: "select", "display", "output", "returned_ok",
                 \* "returned_err" ("idle" where the loop is not modelled)
    ready,       \* the result of the branch tokio::select! resolved
    lastIo,      \* outcome of the last read or write on the PTY master
    written,     \* the bytes written to the PTY master, in order
    parser,      \* the vte Parser of the Terminal: its state between bytes
    pending,     \* bytes the child wrote to the PTY that no read returned yet
    consumed,    \* the bytes the reads of next_output returned so far, in order
    signals,     \* the signals sent to the forked child, in order
    key,         \* the Key handed to the encoder
    encoded,     \* the outcome of Key::to_bytes, <<>> before the call
    overflow_checks,  \* TRUE for a build with overflow checks (debug), FALSE without
    binding,     \* <<s>>: the key-binding string formatted or given, <<>> before
    parsed,      \* <<r>>: the Result of parse_key_binding, <<>> before the call
    color,       \* the string given to parse_color and <<r>>, its outcome
    channel      \* the channel of WaylandState::event_sender, with the events offered to it

screenVars == <<performer, status, steps, last, snap, lastResize>>
streamVars == <<parser, pending, consumed>>
loopVars == <<pty, child, pc, ready, lastIo, written, parser, pending, consumed, signals>>
keyVars == <<key, encoded, overflow_checks, binding, parsed, color, channel>>
vars == <<performer, status, steps, last, snap, lastResize, pty, child, pc, ready,
          lastIo, written, parser, pending, consumed, signals, key, encoded,
          overflow_checks, binding, parsed, color, channel>>

(***************************************************************************)
(* Bounds of the model.                                                    *)
(***************************************************************************)
MaxRows == 3
MaxCols == 3
MaxLimit == 2
MaxSteps == 3

(***************************************************************************)
(* Generic helpers for the Rust primitives the source uses.                *)
(***************************************************************************)
Min(a, b) == IF a <= b THEN a ELSE b
Max(a, b) == IF a >= b THEN a ELSE b

\* usize::saturating_sub
saturating_sub(a, b) == IF a >= b THEN a - b ELSE 0

\* Vec::resize(n, fill): truncate to n elements or pad with fill
VecResize(v, n, fill) == [i \in 1..n |-> IF i <= Len(v) THEN v[i] ELSE fill]

\* Vec::remove(0) leaves the tail; VecDeque::pop_front on an empty deque is a no-op
Rest(v) == IF Len(v) = 0 THEN v ELSE Tail(v)

(***************************************************************************)
(* Cell, CellFlags, Grid.                                                  *)
(***************************************************************************)
White == <<255, 255, 255>>
Black == <<0, 0, 0>>
Green == <<0, 255, 0>>

\* impl Default for Cell
DefaultCell == [c |-> " ", fg |-> White, bg |-> Black, flags |-> {}]

\* vec![Cell::default(); cols]
BlankRow(cols) == [i \in 1..cols |-> DefaultCell]

Grid_new(rows, cols, scrollback_limit) ==
    [cells |-> [r \in 1..rows |-> BlankRow(cols)],
     rows |-> rows,
     cols |-> cols,
     scrollback |-> <<>>,
     scrollback_limit |-> scrollback_limit]

\* a plausible slip: the row count is not recorded after the rows were resized
Grid_resize_stale_rows(g, new_rows, new_cols) ==
    LET g1 == IF new_cols # g.cols
              THEN [g EXCEPT !.cells = [r \in 1..Len(g.cells) |->
                                           VecResize(g.cells[r], new_cols, DefaultCell)],
                             !.cols = new_cols]
              ELSE g
    IN  IF new_rows # g1.rows
        THEN [g1 EXCEPT !.cells = VecResize(g1.cells, new_rows, BlankRow(new_cols))]
        ELSE g1

\* a plausible slip: the cells are rebuilt at the new size instead of resized
Grid_resize_rebuilds(g, new_rows, new_cols) ==
    IF new_cols # g.cols \/ new_rows # g.rows
    THEN [g EXCEPT !.cells = [r \in 1..new_rows |-> BlankRow(new_cols)],
                   !.rows = new_rows,
                   !.cols = new_cols]
    ELSE g

Grid_resize(g, new_rows, new_cols) ==
    LET g1 == IF new_cols # g.cols
              THEN [g EXCEPT !.cells = [r \in 1..Len(g.cells) |->
                                           VecResize(g.cells[r], new_cols, DefaultCell)],
                             !.cols = new_cols]
              ELSE g
    IN  IF new_rows # g1.rows
        THEN [g1 EXCEPT !.cells = VecResize(g1.cells, new_rows, BlankRow(new_cols)),
                        !.rows = new_rows]
        ELSE g1

\* Vec::remove(0) panics on an empty Vec
Grid_scroll_up_panics(g, lines) == lines >= 1 /\ Len(g.cells) = 0

\* one iteration of the loop of Grid::scroll_up
scroll_up_once(g) ==
    LET sb == IF Len(g.scrollback) >= g.scrollback_limit
              THEN Rest(g.scrollback)
              ELSE g.scrollback
    IN  IF Len(g.cells) = 0
        THEN g
        ELSE [g EXCEPT !.scrollback = Append(sb, Head(g.cells)),
                       !.cells = Append(Tail(g.cells), BlankRow(g.cols))]

RECURSIVE Grid_scroll_up(_, _)
Grid_scroll_up(g, lines) ==
    IF lines = 0 THEN g ELSE Grid_scroll_up(scroll_up_once(g), lines - 1)

Grid_clear(g) ==
    [g EXCEPT !.cells = [r \in 1..Len(g.cells) |->
                            [c \in 1..Len(g.cells[r]) |-> DefaultCell]]]

Grid_clear_line(g, row) ==
    IF row < g.rows
    THEN [g EXCEPT !.cells[row + 1] = [c \in 1..Len(g.cells[row + 1]) |-> DefaultCell]]
    ELSE g

\* &mut self.cells[row] panics when row is not an index of cells
Grid_clear_line_panics(g, row) == row < g.rows /\ row >= Len(g.cells)

(***************************************************************************)
(* TerminalPerformer.                                                      *)
(***************************************************************************)
\* TerminalPerformer::new; config.colors.* are given as the colours
\* parse_color(..).unwrap_or(..) yields
TerminalPerformer_new(rows, cols, config) ==
    [grid |-> Grid_new(rows, cols, config.scrollback_lines),
     cursor |-> [row |-> 0, col |-> 0, shape |-> config.cursor_shape, visible |-> TRUE],
     default_fg |-> config.foreground,
     default_bg |-> config.background,
     current_fg |-> config.foreground,
     current_bg |-> config.background,
     current_flags |-> {},
     saved_cursor |-> <<>>,
     scroll_region |-> <<0, saturating_sub(rows, 1)>>,
     insert_mode |-> FALSE,
     auto_wrap_mode |-> TRUE,
     origin_mode |-> FALSE,
     title |-> ""]

\* Vec::insert(index, x) followed by truncate(cols)
InsertCell(v, index, cell, cols) ==
    LET w == [i \in 1..(Len(v) + 1) |->
                 IF i <= index THEN v[i] ELSE IF i = index + 1 THEN cell ELSE v[i - 1]]
    IN  IF Len(w) > cols THEN SubSeq(w, 1, cols) ELSE w

\* the indexing of put_char panics when the cursor is not an index of cells
put_char_panics(p, c) ==
    /\ ~(p.cursor.row >= p.grid.rows \/ p.cursor.col >= p.grid.cols)
    /\ \/ p.cursor.row >= Len(p.grid.cells)
       \/ IF p.insert_mode
          THEN p.cursor.col > Len(p.grid.cells[p.cursor.row + 1])
          ELSE p.cursor.col >= Len(p.grid.cells[p.cursor.row + 1])
       \/ /\ p.cursor.col + 1 >= p.grid.cols
          /\ p.auto_wrap_mode
          /\ p.cursor.row + 1 > p.scroll_region[2]
          /\ Grid_scroll_up_panics(p.grid, 1)

put_char(p, c) ==
    IF p.cursor.row >= p.grid.rows \/ p.cursor.col >= p.grid.cols
    THEN p
    ELSE LET cell == [c |-> c, fg |-> p.current_fg, bg |-> p.current_bg,
                      flags |-> p.current_flags]
             r == p.cursor.row + 1
             cells1 == IF p.insert_mode
                       THEN [p.grid.cells EXCEPT
                                ![r] = InsertCell(@, p.cursor.col, cell, p.grid.cols)]
                       ELSE [p.grid.cells EXCEPT ![r][p.cursor.col + 1] = cell]
             p1 == [p EXCEPT !.grid.cells = cells1, !.cursor.col = @ + 1]
         IN  IF p1.cursor.col >= p1.grid.cols
             THEN IF p1.auto_wrap_mode
                  THEN LET p2 == [p1 EXCEPT !.cursor.col = 0, !.cursor.row = @ + 1]
                       IN  IF p2.cursor.row > p2.scroll_region[2]
                           THEN [p2 EXCEPT !.grid = Grid_scroll_up(@, 1),
                                           !.cursor.row = p2.scroll_region[2]]
                           ELSE p2
                  ELSE [p1 EXCEPT !.cursor.col = p1.grid.cols - 1]
             ELSE p1

\* C0 controls of Perform::execute
BS == 8
HT == 9
LF == 10
CR == 13
BEL == 7

execute_panics(p, byte) ==
    /\ byte = LF
    /\ p.cursor.row + 1 > p.scroll_region[2]
    /\ Grid_scroll_up_panics(p.grid, 1)

\* a plausible slip: the tab stop is not clamped to the last column
execute_tab_unclamped(p, byte) ==
    CASE byte = BS -> IF p.cursor.col > 0 THEN [p EXCEPT !.cursor.col = @ - 1] ELSE p
      [] byte = HT -> [p EXCEPT !.cursor.col = ((p.cursor.col \div 8) + 1) * 8]
      [] byte = LF ->
            LET p1 == [p EXCEPT !.cursor.row = @ + 1]
            IN  IF p1.cursor.row > p1.scroll_region[2]
                THEN [p1 EXCEPT !.grid = Grid_scroll_up(@, 1),
                                !.cursor.row = p1.scroll_region[2]]
                ELSE p1
      [] byte = CR -> [p EXCEPT !.cursor.col = 0]
      [] OTHER -> p

execute(p, byte) ==
    CASE byte = BS -> IF p.cursor.col > 0 THEN [p EXCEPT !.cursor.col = @ - 1] ELSE p
      [] byte = HT ->
            LET col == ((p.cursor.col \div 8) + 1) * 8
            IN  IF col >= p.grid.cols
                THEN [p EXCEPT !.cursor.col = p.grid.cols - 1]
                ELSE [p EXCEPT !.cursor.col = col]
      [] byte = LF ->
            LET p1 == [p EXCEPT !.cursor.row = @ + 1]
            IN  IF p1.cursor.row > p1.scroll_region[2]
                THEN [p1 EXCEPT !.grid = Grid_scroll_up(@, 1),
                                !.cursor.row = p1.scroll_region[2]]
                ELSE p1
      [] byte = CR -> [p EXCEPT !.cursor.col = 0]
      [] OTHER -> p

\* an OSC parameter is a byte string; the payload InvalidUtf8 stands for one
\* that std::str::from_utf8 rejects
InvalidUtf8 == "<invalid utf-8>"

osc_dispatch(p, params) ==
    IF Len(params) >= 2 /\ params[1] = "0"
    THEN IF params[2] # InvalidUtf8 THEN [p EXCEPT !.title = params[2]] ELSE p
    ELSE p

\* params.iter().next().unwrap_or(&[dflt])[0]
FirstParam(params, dflt) == IF Len(params) >= 1 THEN params[1] ELSE dflt
\* a plausible slip: a new iterator is made for the column, which reads the
\* first parameter again
SecondParam_reads_first(params, dflt) == IF Len(params) >= 1 THEN params[1] ELSE dflt
SecondParam(params, dflt) == IF Len(params) >= 2 THEN params[2] ELSE dflt

\* a plausible slip: only the character of an erased cell is reset
EraseCols_keeps_attributes(g, row, from, to) ==
    [g EXCEPT !.cells[row + 1] =
        [i \in 1..Len(g.cells[row + 1]) |->
            IF from + 1 <= i /\ i <= to + 1
            THEN [g.cells[row + 1][i] EXCEPT !.c = " "]
            ELSE g.cells[row + 1][i]]]

\* cells[cursor.row][col] = Cell::default() for col in from..=to (0-based, inclusive)
EraseCols(g, row, from, to) ==
    [g EXCEPT !.cells[row + 1] =
        [i \in 1..Len(g.cells[row + 1]) |->
            IF from + 1 <= i /\ i <= to + 1 THEN DefaultCell ELSE g.cells[row + 1][i]]]

\* grid.clear_line(row) for row in from..to (0-based, to exclusive)
RECURSIVE ClearLines(_, _, _)
ClearLines(g, from, to) ==
    IF from >= to THEN g ELSE ClearLines(Grid_clear_line(g, from), from + 1, to)

\* the loop `for col in cursor.col..grid.cols` indexes cells[cursor.row][col]
EraseToEnd_panics(p) ==
    /\ p.cursor.col < p.grid.cols
    /\ \/ p.cursor.row >= Len(p.grid.cells)
       \/ p.grid.cols > Len(p.grid.cells[p.cursor.row + 1])

\* the loop `for col in 0..=cursor.col` indexes cells[cursor.row][col]
EraseFromStart_panics(p) ==
    \/ p.cursor.row >= Len(p.grid.cells)
    \/ p.cursor.col >= Len(p.grid.cells[p.cursor.row + 1])

\* a plausible slip: SGR 0 restores the colours and forgets the flags
sgr_value_keeps_flags(p, value) ==
    CASE value = 0 -> [p EXCEPT !.current_fg = p.default_fg,
                                !.current_bg = p.default_bg]
      [] value = 1 -> [p EXCEPT !.current_flags = @ \cup {"BOLD"}]
      [] value = 2 -> [p EXCEPT !.current_flags = @ \cup {"DIM"}]
      [] value = 3 -> [p EXCEPT !.current_flags = @ \cup {"ITALIC"}]
      [] value = 4 -> [p EXCEPT !.current_flags = @ \cup {"UNDERLINE"}]
      [] value = 7 -> [p EXCEPT !.current_flags = @ \cup {"REVERSE"}]
      [] value = 22 -> [p EXCEPT !.current_flags = @ \ {"BOLD", "DIM"}]
      [] value = 23 -> [p EXCEPT !.current_flags = @ \ {"ITALIC"}]
      [] value = 24 -> [p EXCEPT !.current_flags = @ \ {"UNDERLINE"}]
      [] value = 27 -> [p EXCEPT !.current_flags = @ \ {"REVERSE"}]
      [] 30 <= value /\ value <= 37 -> [p EXCEPT !.current_fg = p.default_fg]
      [] 40 <= value /\ value <= 47 -> [p EXCEPT !.current_bg = p.default_bg]
      [] OTHER -> p

\* one value of an SGR sequence
sgr_value(p, value) ==
    CASE value = 0 -> [p EXCEPT !.current_fg = p.default_fg,
                                !.current_bg = p.default_bg,
                                !.current_flags = {}]
      [] value = 1 -> [p EXCEPT !.current_flags = @ \cup {"BOLD"}]
      [] value = 2 -> [p EXCEPT !.current_flags = @ \cup {"DIM"}]
      [] value = 3 -> [p EXCEPT !.current_flags = @ \cup {"ITALIC"}]
      [] value = 4 -> [p EXCEPT !.current_flags = @ \cup {"UNDERLINE"}]
      [] value = 7 -> [p EXCEPT !.current_flags = @ \cup {"REVERSE"}]
      [] value = 22 -> [p EXCEPT !.current_flags = @ \ {"BOLD", "DIM"}]
      [] value = 23 -> [p EXCEPT !.current_flags = @ \ {"ITALIC"}]
      [] value = 24 -> [p EXCEPT !.current_flags = @ \ {"UNDERLINE"}]
      [] value = 27 -> [p EXCEPT !.current_flags = @ \ {"REVERSE"}]
      [] 30 <= value /\ value <= 37 -> [p EXCEPT !.current_fg = p.default_fg]
      [] 40 <= value /\ value <= 47 -> [p EXCEPT !.current_bg = p.default_bg]
      [] OTHER -> p

\* for param in params.iter() { for &value in param { .. } }
RECURSIVE sgr(_, _)
sgr(p, params) ==
    IF Len(params) = 0 THEN p ELSE sgr(sgr_value(p, Head(params)), Tail(params))

csi_dispatch_panics(p, params, c) ==
    CASE c = "J" -> CASE FirstParam(params, 0) = 0 -> EraseToEnd_panics(p)
                      [] FirstParam(params, 0) = 1 -> EraseFromStart_panics(p)
                      [] OTHER -> FALSE
      [] c = "K" -> CASE FirstParam(params, 0) = 0 -> EraseToEnd_panics(p)
                      [] FirstParam(params, 0) = 1 -> EraseFromStart_panics(p)
                      [] FirstParam(params, 0) = 2 ->
                            Grid_clear_line_panics(p.grid, p.cursor.row)
                      [] OTHER -> FALSE
      [] OTHER -> FALSE

csi_dispatch(p, params, c) ==
    CASE c = "A" ->
            LET n == Max(FirstParam(params, 1), 1)
            IN  [p EXCEPT !.cursor.row = saturating_sub(@, n)]
      [] c = "B" ->
            LET n == Max(FirstParam(params, 1), 1)
            IN  [p EXCEPT !.cursor.row = Min(@ + n, p.grid.rows - 1)]
      [] c = "C" ->
            LET n == Max(FirstParam(params, 1), 1)
            IN  [p EXCEPT !.cursor.col = Min(@ + n, p.grid.cols - 1)]
      [] c = "D" ->
            LET n == Max(FirstParam(params, 1), 1)
            IN  [p EXCEPT !.cursor.col = saturating_sub(@, n)]
      [] c \in {"H", "f"} ->
            LET row == Max(FirstParam(params, 1), 1) - 1
                col == Max(SecondParam(params, 1), 1) - 1
            IN  [p EXCEPT !.cursor.row = Min(row, p.grid.rows - 1),
                          !.cursor.col = Min(col, p.grid.cols - 1)]
      [] c = "J" ->
            LET n == FirstParam(params, 0)
            IN  CASE n = 0 ->
                        LET g1 == IF p.cursor.col < p.grid.cols
                                  THEN EraseCols(p.grid, p.cursor.row,
                                                 p.cursor.col, p.grid.cols - 1)
                                  ELSE p.grid
                        IN  [p EXCEPT !.grid = ClearLines(g1, p.cursor.row + 1, p.grid.rows)]
                  [] n = 1 ->
                        LET g1 == ClearLines(p.grid, 0, p.cursor.row)
                        IN  [p EXCEPT !.grid = EraseCols(g1, p.cursor.row, 0, p.cursor.col)]
                  [] n = 2 -> [p EXCEPT !.grid = Grid_clear(@)]
                  [] OTHER -> p
      [] c = "K" ->
            LET n == FirstParam(params, 0)
            IN  CASE n = 0 ->
                        IF p.cursor.col < p.grid.cols
                        THEN [p EXCEPT !.grid = EraseCols(@, p.cursor.row,
                                                          p.cursor.col, p.grid.cols - 1)]
                        ELSE p
                  [] n = 1 -> [p EXCEPT !.grid = EraseCols(@, p.cursor.row, 0, p.cursor.col)]
                  [] n = 2 -> [p EXCEPT !.grid = Grid_clear_line(@, p.cursor.row)]
                  [] OTHER -> p
      [] c = "m" -> sgr(p, params)
      [] OTHER -> p

\* Perform::esc_dispatch has an empty body
esc_dispatch(p, byte) == p

(***************************************************************************)
(* Terminal::resize.  The TIOCSWINSZ ioctl of Pty::resize is the           *)
(* environment's: ioctl_ok says whether it succeeded.                      *)
(***************************************************************************)
CellWidth == 8
CellHeight == 16
U16 == 65536

\* (width / 8).max(1) as u16
resize_cols(width) == Max(width \div CellWidth, 1) % U16
\* (height / 16).max(1) as u16
resize_rows(height) == Max(height \div CellHeight, 1) % U16

\* Pty::resize(cols, rows): the Winsize handed to ioctl(master_fd, TIOCSWINSZ)
Pty_resize(cols, rows) ==
    [ws_row |-> rows, ws_col |-> cols, ws_xpixel |-> 0, ws_ypixel |-> 0]

\* a plausible slip: the grid is resized before the PTY is asked
Terminal_resize_grid_first(p, width, height, ioctl_ok) ==
    [p EXCEPT !.grid = Grid_resize(@, resize_rows(height), resize_cols(width))]

\* a plausible slip: a resize also resets the rendition
Terminal_resize_resets_rendition(p, width, height, ioctl_ok) ==
    IF ioctl_ok
    THEN [p EXCEPT !.grid = Grid_resize(@, resize_rows(height), resize_cols(width)),
                   !.current_fg = p.default_fg,
                   !.current_bg = p.default_bg,
                   !.current_flags = {}]
    ELSE p

Terminal_resize(p, width, height, ioctl_ok) ==
    IF ioctl_ok
    THEN [p EXCEPT !.grid = Grid_resize(@, resize_rows(height), resize_cols(width))]
    ELSE p

(***************************************************************************)
(* Inputs.                                                                 *)
(***************************************************************************)
Configs ==
    [foreground : {White, Green}, background : {Black},
     scrollback_lines : 0..MaxLimit, cursor_shape : {"Block"}]

Chars == {"A", "B"}
C0Bytes == {BS, HT, LF, CR, BEL}
MaxParam == 65535
CursorParams == {<<>>, <<2>>, <<MaxParam>>}
PositionParams == {<<>>, <<2>>, <<2, 2>>, <<1, 3>>, <<3, 1>>, <<MaxParam, MaxParam>>}
EraseParams == {<<>>, <<0>>, <<1>>, <<2>>, <<3>>}
SgrParams == {<<>>, <<0>>, <<1>>, <<31>>, <<1, 4>>}
CsiParams(c) ==
    CASE c \in {"A", "B", "C", "D"} -> CursorParams
      [] c \in {"H", "f"} -> PositionParams
      [] c \in {"J", "K"} -> EraseParams
      [] c = "m" -> SgrParams
      [] OTHER -> {<<1, 2>>}
CsiFinals == {"A", "B", "C", "D", "H", "f", "J", "K", "m", "r"}
OscParams == {<<"0", "T">>, <<"2", "T">>, <<"0">>, <<"0", InvalidUtf8>>}
EscBytes == {"7", "8", "c"}
Widths == {0} \cup {CellWidth * c : c \in 2..MaxCols}
Heights == {0} \cup {CellHeight * r : r \in 2..MaxRows}

\* Pty::new: no child, no master file yet
Pty_new == [child_pid |-> "None", master_file |-> "None"]

NoKey == [code |-> [tag |-> "Menu", arg |-> 0], modifiers |-> {}]

\* the parts of the state a specification does not exercise
ESC == 27
LBRACKET == 91
SEMICOLON == 59

\* Parser::new(): the ground state, no parameter collected
Parser_new == [state |-> "ground", params |-> <<>>, param |-> 0]

LoopIdle ==
    /\ pty = Pty_new
    /\ child = "running"
    /\ pc = "idle"
    /\ ready = <<>>
    /\ lastIo = [op |-> "none", os |-> "none", result |-> [ok |-> TRUE, n |-> 0, err |-> ""]]
    /\ written = <<>>
    /\ parser = Parser_new
    /\ pending = <<>>
    /\ consumed = <<>>
    /\ signals = <<>>

\* WaylandState::new: `let (event_sender, _) = crossbeam_channel::unbounded()`
\* drops the Receiver at once; offered lists the events given to send
WaylandState_new == [receiver |-> "dropped", queue |-> <<>>, offered |-> <<>>]

\* no colour string was parsed yet
NoColor == [str |-> <<>>, result |-> <<>>]

KeyIdle ==
    /\ key = NoKey
    /\ encoded = <<>>
    /\ overflow_checks = TRUE
    /\ binding = <<>>
    /\ parsed = <<>>
    /\ color = NoColor
    /\ channel = WaylandState_new

(***************************************************************************)
(* The screen under parser events and resizes.                             *)
(***************************************************************************)
Init ==
    /\ performer \in {TerminalPerformer_new(r, c, cfg) :
                         r \in 1..MaxRows, c \in 1..MaxCols, cfg \in Configs}
    /\ status = "running"
    /\ steps = 0
    /\ last = "new"
    /\ snap = <<>>
    /\ lastResize = <<>>
    /\ LoopIdle
    /\ KeyIdle

\* one callback: it panics, ending the process, or yields the next performer
Apply(panics, next, kind) ==
    /\ status = "running"
    /\ steps < MaxSteps
    /\ IF panics
       THEN status' = "panicked" /\ UNCHANGED performer
       ELSE performer' = next /\ UNCHANGED status
    /\ steps' = steps + 1
    /\ last' = kind

Rendition(p) == [fg |-> p.current_fg, bg |-> p.current_bg, flags |-> p.current_flags]

PerformPrint(c) ==
    /\ Apply(put_char_panics(performer, c), put_char(performer, c), "print")
    /\ UNCHANGED <<snap, lastResize, loopVars, keyVars>>

PerformExecute(byte) ==
    /\ Apply(execute_panics(performer, byte), execute(performer, byte), "execute")
    /\ UNCHANGED <<snap, lastResize, loopVars, keyVars>>

PerformCsi(params, c) ==
    /\ Apply(csi_dispatch_panics(performer, params, c),
             csi_dispatch(performer, params, c), "csi")
    /\ UNCHANGED <<snap, lastResize, loopVars, keyVars>>

PerformOsc(params) ==
    /\ Apply(FALSE, osc_dispatch(performer, params), "osc")
    /\ UNCHANGED <<snap, lastResize, loopVars, keyVars>>

PerformEsc(byte) ==
    /\ Apply(FALSE, esc_dispatch(performer, byte), "esc" \o byte)
    /\ snap' = IF byte = "7"
               THEN <<[cursor |-> performer.cursor, rendition |-> Rendition(performer)]>>
               ELSE snap
    /\ UNCHANGED <<lastResize, loopVars, keyVars>>

TerminalResize(width, height, ioctl_ok) ==
    /\ Apply(FALSE, Terminal_resize(performer, width, height, ioctl_ok),
             IF ioctl_ok THEN "resize" ELSE "resize_err")
    /\ lastResize' = IF ioctl_ok
                     THEN <<resize_rows(height), resize_cols(width)>>
                     ELSE lastResize
    /\ UNCHANGED <<snap, loopVars, keyVars>>

Parse ==
    \/ \E c \in Chars : PerformPrint(c)
    \/ \E byte \in C0Bytes : PerformExecute(byte)
    \/ \E c \in CsiFinals : \E params \in CsiParams(c) : PerformCsi(params, c)
    \/ \E params \in OscParams : PerformOsc(params)
    \/ \E byte \in EscBytes : PerformEsc(byte)

Next ==
    \/ Parse
    \/ \E width \in Widths, height \in Heights, ioctl_ok \in BOOLEAN :
          TerminalResize(width, height, ioctl_ok)

Spec == Init /\ [][Next]_vars

\* parser events only, no resize
SpecParse == Init /\ [][Parse]_vars

(***************************************************************************)
(* Properties of the screen.                                               *)
(***************************************************************************)
\* C1: without a resize, after any sequence of parser events on a fresh
\* screen the cursor is inside the grid: 0 <= row < rows and 0 <= col < cols.
C1_CursorInBounds ==
    /\ 0 <= performer.cursor.row /\ performer.cursor.row < performer.grid.rows
    /\ 0 <= performer.cursor.col /\ performer.cursor.col < performer.grid.cols

\* a line feed at the bottom row has scrolled and left the cursor on the last row
C1_Witness ==
    /\ last = "execute"
    /\ steps = MaxSteps
    /\ Len(performer.grid.scrollback) >= 1
    /\ performer.cursor.row = performer.grid.rows - 1
    /\ performer.grid.rows = MaxRows

\* C2: after Terminal::resize has resized the grid to (new_rows, new_cols)
\* the cursor is inside the new bounds.
C2_ResizeClampsCursor ==
    last = "resize" =>
        /\ performer.cursor.row < lastResize[1]
        /\ performer.cursor.col < lastResize[2]

\* C3: the scrollback never holds more than scrollback_limit rows, for
\* every configured limit, 0 included.
C3_ScrollbackBounded ==
    Len(performer.grid.scrollback) <= performer.grid.scrollback_limit

\* C8: with auto_wrap on, a print into the last column leaves the cursor on
\* the same row at col = cols - 1 (the wrap is pending) and scrolls nothing.
C8_PendingWrap ==
    [][(/\ last' = "print"
        /\ status' = "running"
        /\ performer.auto_wrap_mode
        /\ performer.cursor.row < performer.grid.rows
        /\ performer.cursor.col = performer.grid.cols - 1)
       => (/\ performer'.cursor.row = performer.cursor.row
           /\ performer'.cursor.col = performer.grid.cols - 1
           /\ performer'.grid.scrollback = performer.grid.scrollback)]_vars

\* C9: ESC 8 restores the cursor and the rendition to what they were at the
\* last ESC 7, whatever happened in between.
C9_SaveRestore ==
    (last = "esc8" /\ snap # <<>>) =>
        /\ performer.cursor = snap[1].cursor
        /\ Rendition(performer) = snap[1].rendition

(***************************************************************************)
(* The Grid on its own: Grid::new, then any sequence of calls of its       *)
(* public methods resize, scroll_up, clear and clear_line, and of writes   *)
(* to its public cells (Grid::scroll_down is not called here).             *)
(***************************************************************************)
MaxLines == 2

InitGrid ==
    /\ performer \in {TerminalPerformer_new(r, c, cfg) :
                         r \in 1..MaxRows, c \in 1..MaxCols,
                         cfg \in {k \in Configs : k.foreground = White}}
    /\ status = "running"
    /\ steps = 0
    /\ last = "new"
    /\ snap = <<>>
    /\ lastResize = <<>>
    /\ LoopIdle
    /\ KeyIdle

GridResize(new_rows, new_cols) ==
    /\ Apply(FALSE, [performer EXCEPT !.grid = Grid_resize(@, new_rows, new_cols)],
             "resize")
    /\ lastResize' = <<new_rows, new_cols>>
    /\ UNCHANGED <<snap, loopVars, keyVars>>

GridScrollUp(lines) ==
    /\ Apply(Grid_scroll_up_panics(performer.grid, lines),
             [performer EXCEPT !.grid = Grid_scroll_up(@, lines)], "scroll_up")
    /\ UNCHANGED <<snap, lastResize, loopVars, keyVars>>

GridClear ==
    /\ Apply(FALSE, [performer EXCEPT !.grid = Grid_clear(@)], "clear")
    /\ UNCHANGED <<snap, lastResize, loopVars, keyVars>>

GridClearLine(row) ==
    /\ Apply(Grid_clear_line_panics(performer.grid, row),
             [performer EXCEPT !.grid = Grid_clear_line(@, row)], "clear_line")
    /\ UNCHANGED <<snap, lastResize, loopVars, keyVars>>

\* grid.cells[row][col].c = c, as the callers of the public field do
GridSetCell(row, col, c) ==
    /\ row < Len(performer.grid.cells)
    /\ col < Len(performer.grid.cells[row + 1])
    /\ Apply(FALSE, [performer EXCEPT !.grid.cells[row + 1][col + 1].c = c], "set_cell")
    /\ UNCHANGED <<snap, lastResize, loopVars, keyVars>>

NextGrid ==
    \/ \E new_rows \in 1..MaxRows, new_cols \in 1..MaxCols : GridResize(new_rows, new_cols)
    \/ \E lines \in 0..MaxLines : GridScrollUp(lines)
    \/ GridClear
    \/ \E row \in 0..MaxRows : GridClearLine(row)
    \/ \E row \in 0..(MaxRows - 1), col \in 0..(MaxCols - 1) :
          GridSetCell(row, col, "A")

SpecGrid == InitGrid /\ [][NextGrid]_vars

\* |cells| == rows and every row holds cols cells
ShapeOk(g) ==
    /\ Len(g.cells) = g.rows
    /\ \A r \in 1..Len(g.cells) : Len(g.cells[r]) = g.cols

\* C4: after any sequence of Grid::resize(r, c) calls with r, c >= 1 the grid
\* has the rows and cols of the last call, cells holds rows rows and every
\* row holds cols cells.
C4_ResizeShape ==
    /\ ShapeOk(performer.grid)
    /\ lastResize # <<>> =>
          /\ performer.grid.rows = lastResize[1]
          /\ performer.grid.cols = lastResize[2]

\* a resize that changed both dimensions of a grid that had scrolled
C4_Witness ==
    /\ last = "resize"
    /\ steps = MaxSteps
    /\ Len(performer.grid.scrollback) >= 1
    /\ performer.grid.rows = MaxRows
    /\ performer.grid.cols = 1
    /\ \E r \in 1..Len(performer.grid.scrollback) :
          Len(performer.grid.scrollback[r]) = MaxCols

(***************************************************************************)
(* Key::to_bytes.  A char is its code point; a KeyCode is [tag, arg] with  *)
(* arg the char of Char(c), the number of F(n), and 0 otherwise.           *)
(***************************************************************************)
U8 == 256

Char(c) == [tag |-> "Char", arg |-> c]
F(n) == [tag |-> "F", arg |-> n]
Named(tag) == [tag |-> tag, arg |-> 0]
Key_new(code, modifiers) == [code |-> code, modifiers |-> modifiers]

IsAsciiUpper(c) == 65 <= c /\ c <= 90
IsAsciiLower(c) == 97 <= c /\ c <= 122
\* char::to_ascii_lowercase
to_ascii_lowercase(c) == IF IsAsciiUpper(c) THEN c + 32 ELSE c

\* c.to_string().into_bytes(): the UTF-8 encoding of c
utf8(c) ==
    IF c < 128 THEN <<c>>
    ELSE IF c < 2048 THEN <<192 + (c \div 64), 128 + (c % 64)>>
    ELSE IF c < 65536
         THEN <<224 + (c \div 4096), 128 + ((c \div 64) % 64), 128 + (c % 64)>>
         ELSE <<240 + (c \div 262144), 128 + ((c \div 4096) % 64),
                128 + ((c \div 64) % 64), 128 + (c % 64)>>

Bytes(b) == [panic |-> FALSE, bytes |-> b]
Panic == [panic |-> TRUE, bytes |-> <<>>]

\* a - b + 1 on u8: with overflow checks a borrow panics, without it wraps
u8_sub_add1(a, b, checks) ==
    IF a >= b
    THEN IF a - b + 1 >= U8
         THEN IF checks THEN Panic ELSE Bytes(<<(a - b + 1) % U8>>)
         ELSE Bytes(<<a - b + 1>>)
    ELSE IF checks THEN Panic ELSE Bytes(<<(a - b + U8 + 1) % U8>>)

\* a plausible slip: Shift is tested before Ctrl
ArrowBytes_shift_first(modifiers, final) ==
    IF "SHIFT" \in modifiers THEN <<27, 91, 49, 59, 50, final>>
    ELSE IF "CTRL" \in modifiers THEN <<27, 91, 49, 59, 53, final>>
    ELSE <<27, 91, final>>

\* CSI <final>, CSI 1;5 <final> with Ctrl, CSI 1;2 <final> with Shift
ArrowBytes(modifiers, final) ==
    IF "CTRL" \in modifiers THEN <<27, 91, 49, 59, 53, final>>
    ELSE IF "SHIFT" \in modifiers THEN <<27, 91, 49, 59, 50, final>>
    ELSE <<27, 91, final>>

\* a plausible slip: F13 gets a sequence of its own
FunctionKeyBytes_f13(n) ==
    CASE n = 1 -> <<27, 79, 80>>
      [] n = 2 -> <<27, 79, 81>>
      [] n = 3 -> <<27, 79, 82>>
      [] n = 4 -> <<27, 79, 83>>
      [] n = 5 -> <<27, 91, 49, 53, 126>>
      [] n = 6 -> <<27, 91, 49, 55, 126>>
      [] n = 7 -> <<27, 91, 49, 56, 126>>
      [] n = 8 -> <<27, 91, 49, 57, 126>>
      [] n = 9 -> <<27, 91, 50, 48, 126>>
      [] n = 10 -> <<27, 91, 50, 49, 126>>
      [] n = 11 -> <<27, 91, 50, 51, 126>>
      [] n = 12 -> <<27, 91, 50, 52, 126>>
      [] n = 13 -> <<27, 91, 50, 53, 126>>
      [] OTHER -> <<>>

FunctionKeyBytes(n) ==
    CASE n = 1 -> <<27, 79, 80>>
      [] n = 2 -> <<27, 79, 81>>
      [] n = 3 -> <<27, 79, 82>>
      [] n = 4 -> <<27, 79, 83>>
      [] n = 5 -> <<27, 91, 49, 53, 126>>
      [] n = 6 -> <<27, 91, 49, 55, 126>>
      [] n = 7 -> <<27, 91, 49, 56, 126>>
      [] n = 8 -> <<27, 91, 49, 57, 126>>
      [] n = 9 -> <<27, 91, 50, 48, 126>>
      [] n = 10 -> <<27, 91, 50, 49, 126>>
      [] n = 11 -> <<27, 91, 50, 51, 126>>
      [] n = 12 -> <<27, 91, 50, 52, 126>>
      [] OTHER -> <<>>

to_bytes(k, checks) ==
    LET tag == k.code.tag
        c == k.code.arg
        m == k.modifiers
    IN  CASE tag = "Char" ->
                IF "CTRL" \in m
                THEN LET l == to_ascii_lowercase(c)
                     IN  CASE IsAsciiLower(l) -> u8_sub_add1(c % U8, 97, checks)
                           [] l = 64 -> Bytes(<<0>>)
                           [] l = 91 -> Bytes(<<27>>)
                           [] l = 92 -> Bytes(<<28>>)
                           [] l = 93 -> Bytes(<<29>>)
                           [] l = 94 -> Bytes(<<30>>)
                           [] l = 95 -> Bytes(<<31>>)
                           [] l = 63 -> Bytes(<<127>>)
                           [] OTHER -> Bytes(utf8(c))
                ELSE IF "ALT" \in m
                     THEN Bytes(<<27>> \o utf8(c))
                     ELSE Bytes(utf8(c))
          [] tag = "Enter" -> Bytes(<<13>>)
          [] tag = "Tab" -> Bytes(<<9>>)
          [] tag = "Backspace" -> Bytes(<<127>>)
          [] tag = "Delete" -> Bytes(<<27, 91, 51, 126>>)
          [] tag = "Insert" -> Bytes(<<27, 91, 50, 126>>)
          [] tag = "Home" ->
                Bytes(IF "CTRL" \in m THEN <<27, 91, 49, 59, 53, 72>> ELSE <<27, 91, 72>>)
          [] tag = "End" ->
                Bytes(IF "CTRL" \in m THEN <<27, 91, 49, 59, 53, 70>> ELSE <<27, 91, 70>>)
          [] tag = "PageUp" -> Bytes(<<27, 91, 53, 126>>)
          [] tag = "PageDown" -> Bytes(<<27, 91, 54, 126>>)
          [] tag = "Up" -> Bytes(ArrowBytes(m, 65))
          [] tag = "Down" -> Bytes(ArrowBytes(m, 66))
          [] tag = "Left" -> Bytes(ArrowBytes(m, 68))
          [] tag = "Right" -> Bytes(ArrowBytes(m, 67))
          [] tag = "F" -> Bytes(FunctionKeyBytes(c))
          [] tag = "Escape" -> Bytes(<<27>>)
          [] OTHER -> Bytes(<<>>)

(***************************************************************************)
(* The encoder on its own: a key is chosen, then encoded once.             *)
(***************************************************************************)
MaxF == 13
Letters == (65..90) \cup (97..122)
\* '1', '?', '@', '[', '\', ']', '^', '_', U+00E9, U+20AC
OtherChars == {49, 63, 64, 91, 92, 93, 94, 95, 233, 8364}
NamedKeys ==
    {"Enter", "Tab", "Backspace", "Delete", "Insert", "Home", "End", "PageUp",
     "PageDown", "Up", "Down", "Left", "Right", "Escape", "CapsLock", "ScrollLock",
     "NumLock", "PrintScreen", "Pause", "Menu"}
KeyCodes ==
    {Char(c) : c \in Letters \cup OtherChars}
        \cup {F(n) : n \in 0..MaxF} \cup {Named(t) : t \in NamedKeys}
ModifierSets == SUBSET {"SHIFT", "CTRL", "ALT", "SUPER"}

ScreenIdle ==
    /\ performer = TerminalPerformer_new(1, 1,
                      [foreground |-> White, background |-> Black,
                       scrollback_lines |-> 0, cursor_shape |-> "Block"])
    /\ status = "running"
    /\ steps = 0
    /\ last = "new"
    /\ snap = <<>>
    /\ lastResize = <<>>

InitKey ==
    /\ ScreenIdle
    /\ LoopIdle
    /\ key \in {Key_new(code, m) : code \in KeyCodes, m \in ModifierSets}
    /\ encoded = <<>>
    /\ overflow_checks \in BOOLEAN
    /\ binding = <<>>
    /\ parsed = <<>>
    /\ color = NoColor
    /\ channel = WaylandState_new

Encode ==
    /\ encoded = <<>>
    /\ encoded' = <<to_bytes(key, overflow_checks)>>
    /\ UNCHANGED <<key, overflow_checks, binding, parsed, color, channel, screenVars, loopVars>>

NextKey == Encode

SpecKey == InitKey /\ [][NextKey]_vars

\* C10: Ctrl with an ASCII letter, upper or lower case, encodes to the single
\* byte lower(c) - 'a' + 1, in 0x01..0x1A, without arithmetic underflow.
C10_CtrlLetter ==
    (/\ encoded # <<>>
     /\ key.code.tag = "Char"
     /\ key.code.arg \in Letters
     /\ "CTRL" \in key.modifiers)
    => (/\ ~encoded[1].panic
        /\ encoded[1].bytes = <<to_ascii_lowercase(key.code.arg) - 97 + 1>>
        /\ encoded[1].bytes[1] \in 1..26)

(***************************************************************************)
(* The PTY conduit and the event loop MyTermApp::run.  What the kernel     *)
(* answers to a read, a write or an ioctl on the master is the             *)
(* environment's choice.  One iteration of the loop is two steps: select   *)
(* resolves one of its two futures, then the matching arm runs.            *)
(***************************************************************************)
\* the shell was forked and the master wrapped in a File (Pty::spawn_shell)
Pty_spawned == [child_pid |-> "Some", master_file |-> "Some"]

\* what file.read(buf) gives: data, Ok(0) at end of file, or an error
OsData(bytes) == [os |-> "data", bytes |-> bytes]
OsEof == [os |-> "eof", bytes |-> <<>>]
OsError == [os |-> "error", bytes |-> <<>>]

\* the Result of Pty::read / Pty::write: Ok(n) or Err(err)
Ok(n) == [ok |-> TRUE, n |-> n, err |-> ""]
Err(e) == [ok |-> FALSE, n |-> 0, err |-> e]

Pty_read(t, os) ==
    IF t.master_file = "Some"
    THEN IF os.os = "error" THEN Err("Io") ELSE Ok(Len(os.bytes))
    ELSE Err("PTY not initialized")

\* write_all then flush; os_ok says whether both succeeded
Pty_write(t, data, os_ok) ==
    IF t.master_file = "Some"
    THEN IF os_ok THEN Ok(Len(data)) ELSE Err("Io")
    ELSE Err("PTY not initialized")

\* the character of a printable ASCII byte
Chr(byte) ==
    CASE byte = 65 -> "A" [] byte = 66 -> "B" [] byte = 50 -> "2" [] byte = 91 -> "["
      [] byte = 97 -> "a" [] byte = 98 -> "b" [] byte = 99 -> "c" [] byte = 100 -> "d"
      [] byte = 101 -> "e"
      [] OTHER -> "?"

\* the final character of a control sequence
FinalChr(byte) ==
    CASE byte = 65 -> "A" [] byte = 66 -> "B" [] byte = 67 -> "C" [] byte = 68 -> "D"
      [] byte = 72 -> "H" [] byte = 74 -> "J" [] byte = 75 -> "K" [] byte = 109 -> "m"
      [] OTHER -> "?"

\* self.parser.advance(&mut self.performer, byte): tp is the pair of the
\* performer and the parser.  The parser is in its ground state, after ESC, or
\* inside a control sequence whose parameters it is collecting; a C0 control
\* is executed wherever it arrives, ESC starts a new escape sequence
parser_advance(tp, byte) ==
    LET p == tp.performer
        ps == tp.parser
    IN  CASE byte = ESC -> [tp EXCEPT !.parser = [Parser_new EXCEPT !.state = "escape"]]
          [] byte < 32 /\ byte # ESC -> [tp EXCEPT !.performer = execute(p, byte)]
          [] byte >= 32 /\ ps.state = "ground" ->
                [tp EXCEPT !.performer = put_char(p, Chr(byte))]
          [] byte >= 32 /\ ps.state = "escape" ->
                IF byte = LBRACKET
                THEN [tp EXCEPT !.parser = [Parser_new EXCEPT !.state = "csi"]]
                ELSE [performer |-> esc_dispatch(p, byte), parser |-> Parser_new]
          [] byte >= 32 /\ ps.state = "csi" ->
                CASE 48 <= byte /\ byte <= 57 ->
                        [tp EXCEPT !.parser.param = Min(ps.param * 10 + (byte - 48), MaxParam)]
                  [] byte = SEMICOLON ->
                        [tp EXCEPT !.parser.params = Append(ps.params, ps.param),
                                   !.parser.param = 0]
                  [] 64 <= byte /\ byte <= 126 ->
                        [performer |-> csi_dispatch(p, Append(ps.params, ps.param),
                                                    FinalChr(byte)),
                         parser |-> Parser_new]
                  [] OTHER -> tp

RECURSIVE advance_all(_, _)
advance_all(tp, buf) ==
    IF Len(buf) = 0 THEN tp ELSE advance_all(parser_advance(tp, Head(buf)), Tail(buf))

\* a plausible slip: every read starts with a parser of its own
next_output_new_parser(p, ps, t, os) ==
    LET r == Pty_read(t, os)
        tp == advance_all([performer |-> p, parser |-> Parser_new], SubSeq(os.bytes, 1, r.n))
    IN  IF r.ok
        THEN [performer |-> tp.performer, parser |-> tp.parser, output |-> "Some"]
        ELSE [performer |-> p, parser |-> ps, output |-> "None"]

\* Terminal::next_output: the performer and the parser after it and the Option
\* it returns (it never returns Err)
next_output(p, ps, t, os) ==
    LET r == Pty_read(t, os)
        tp == advance_all([performer |-> p, parser |-> ps], SubSeq(os.bytes, 1, r.n))
    IN  IF r.ok
        THEN [performer |-> tp.performer, parser |-> tp.parser, output |-> "Some"]
        ELSE [performer |-> p, parser |-> ps, output |-> "None"]

LoopRows == 2
LoopCols == 2
LoopReads == {<<65>>, <<LF>>, <<66, LF>>}
LoopKeys ==
    {Key_new(Char(97), {}), Key_new(Char(65), {"CTRL"}), Key_new(F(MaxF), {}),
     Key_new(Named("Up"), {"SHIFT"})}
LoopSizes == {<<CellWidth, CellHeight * LoopRows>>, <<CellWidth * LoopCols, CellHeight>>}

IoNone == [op |-> "none", os |-> "none", result |-> Ok(0)]

\* main: Terminal::new and start_shell have succeeded, run() begins.  The
\* performer of Terminal::new is 24 x 80; the loop is explored on a
\* LoopRows x LoopCols one.
InitLoop ==
    /\ performer \in {TerminalPerformer_new(LoopRows, LoopCols, cfg) :
                         cfg \in {k \in Configs : k.foreground = White}}
    /\ status = "running"
    /\ steps = 0
    /\ last = "new"
    /\ snap = <<>>
    /\ lastResize = <<>>
    /\ pty = Pty_spawned
    /\ child = "running"
    /\ pc = "select"
    /\ ready = <<>>
    /\ lastIo = IoNone
    /\ written = <<>>
    /\ parser = Parser_new
    /\ pending = <<>>
    /\ consumed = <<>>
    /\ signals = <<>>
    /\ key = NoKey
    /\ encoded = <<>>
    /\ overflow_checks \in BOOLEAN
    /\ binding = <<>>
    /\ parsed = <<>>
    /\ color = NoColor
    /\ channel = WaylandState_new

\* the shell exits; from then on the master has no more data
ChildExit ==
    /\ pc \in {"select", "display", "output"}
    /\ status = "running"
    /\ child = "running"
    /\ child' = "exited"
    /\ UNCHANGED <<screenVars, pty, pc, ready, lastIo, written, streamVars, signals, keyVars>>

\* select resolves terminal.next_output(): the read returned os
SelectOutput(os) ==
    /\ pc = "select"
    /\ status = "running"
    /\ os.os = "data" => child = "running" /\ steps < MaxSteps
    /\ os.os = "eof" => child = "exited"
    /\ LET out == next_output(performer, parser, pty, os)
       IN  /\ performer' = out.performer
           /\ parser' = out.parser
           /\ ready' = <<"output", out.output>>
    /\ lastIo' = [op |-> "read", os |-> os.os, result |-> Pty_read(pty, os)]
    /\ steps' = IF os.os = "data" THEN steps + 1 ELSE steps
    /\ last' = IF os.os = "data" THEN "output" ELSE last
    /\ pc' = "output"
    /\ UNCHANGED <<status, snap, lastResize, pty, child, written, pending, consumed, signals,
                   keyVars>>

\* if let Some(_output) = terminal_output? { render }
HandleOutput ==
    /\ pc = "output"
    /\ status = "running"
    /\ pc' = "select"
    /\ ready' = <<>>
    /\ UNCHANGED <<screenVars, pty, child, lastIo, written, streamVars, signals, keyVars>>

\* select resolves display.next_event() with a Result<Event>
SelectDisplay(ev) ==
    /\ pc = "select"
    /\ status = "running"
    /\ ev[1] \in {"Resize", "Key"} => steps < MaxSteps
    /\ ready' = <<"display", ev>>
    /\ pc' = "display"
    /\ UNCHANGED <<screenVars, pty, child, lastIo, written, streamVars, signals, keyVars>>

\* display_event? with Err: run returns the error
HandleDisplayErr ==
    /\ pc = "display"
    /\ status = "running"
    /\ ready[2][1] = "Err"
    /\ pc' = "returned_err"
    /\ ready' = <<>>
    /\ UNCHANGED <<screenVars, pty, child, lastIo, written, streamVars, signals, keyVars>>

\* Event::Resize(width, height): terminal.resize(..)?, then render
HandleResize(ioctl_ok) ==
    /\ pc = "display"
    /\ status = "running"
    /\ ready[2][1] = "Resize"
    /\ performer' = Terminal_resize(performer, ready[2][2], ready[2][3], ioctl_ok)
    /\ lastResize' = IF ioctl_ok
                     THEN <<resize_rows(ready[2][3]), resize_cols(ready[2][2])>>
                     ELSE lastResize
    /\ last' = IF ioctl_ok THEN "resize" ELSE "resize_err"
    /\ steps' = steps + 1
    /\ pc' = IF ioctl_ok THEN "select" ELSE "returned_err"
    /\ ready' = <<>>
    /\ UNCHANGED <<status, snap, pty, child, lastIo, written, streamVars, signals, keyVars>>

\* a plausible slip: the bytes of the latest key go in front of the earlier ones
write_all_in_front(master, data) == data \o master

\* file.write_all(data): the master receives the bytes after those it already
\* holds; when write_all or flush fails a prefix of data was delivered
write_all(master, data) == master \o data

\* Event::Key(key): to_bytes, write_to_pty(..)? unless empty, then render
HandleKey(os_ok) ==
    /\ pc = "display"
    /\ status = "running"
    /\ ready[2][1] = "Key"
    /\ LET r == to_bytes(ready[2][2], overflow_checks)
           w == Pty_write(pty, r.bytes, os_ok)
       IN  /\ key' = ready[2][2]
           /\ encoded' = <<r>>
           /\ IF r.panic
              THEN /\ status' = "panicked"
                   /\ UNCHANGED <<pc, lastIo, written>>
              ELSE /\ UNCHANGED status
                   /\ IF r.bytes = <<>>
                      THEN /\ os_ok
                           /\ pc' = "select"
                           /\ UNCHANGED <<lastIo, written>>
                      ELSE /\ lastIo' = [op |-> "write",
                                         os |-> IF os_ok THEN "ok" ELSE "error",
                                         result |-> w]
                           /\ IF w.ok
                              THEN written' = write_all(written, r.bytes)
                              ELSE \E k \in 0..Len(r.bytes) :
                                      written' = write_all(written, SubSeq(r.bytes, 1, k))
                           /\ pc' = IF w.ok THEN "select" ELSE "returned_err"
    /\ steps' = steps + 1
    /\ last' = "key"
    /\ ready' = <<>>
    /\ UNCHANGED <<performer, snap, lastResize, pty, child, streamVars, signals,
                   overflow_checks, binding, parsed, color, channel>>

\* Event::Close: break, run returns Ok(())
HandleClose ==
    /\ pc = "display"
    /\ status = "running"
    /\ ready[2][1] = "Close"
    /\ pc' = "returned_ok"
    /\ ready' = <<>>
    /\ UNCHANGED <<screenVars, pty, child, lastIo, written, streamVars, signals, keyVars>>

\* what Display::next_event can return: it answers Event::Close once the
\* window asked to exit and Err when the Wayland connection fails; the
\* Resize and Key events the handlers send go to a channel it never reads
next_event_results == {<<"Close">>, <<"Err">>}

\* the other values of the type Result<Event>
OtherEvents ==
    {<<"Resize", sz[1], sz[2]>> : sz \in LoopSizes} \cup {<<"Key", k>> : k \in LoopKeys}

\* the steps the loop takes on its own once a future is ready
LoopStep ==
    \/ \E bytes \in LoopReads : SelectOutput(OsData(bytes))
    \/ SelectOutput(OsEof)
    \/ SelectOutput(OsError)
    \/ HandleOutput
    \/ HandleDisplayErr
    \/ HandleClose

NextLoop ==
    \/ LoopStep
    \/ \E ev \in next_event_results : SelectDisplay(ev)
    \/ ChildExit

\* the program: main after start_shell, with the Display of display.rs
SpecLoop == InitLoop /\ [][NextLoop]_vars

\* the runtime keeps polling the task: the loop takes a step whenever it can
FairSpecLoop == SpecLoop /\ WF_vars(LoopStep)

\* MyTermApp::run against a display that delivers every Event
NextRun ==
    \/ NextLoop
    \/ \E ev \in OtherEvents : SelectDisplay(ev)
    \/ \E ioctl_ok \in BOOLEAN : HandleResize(ioctl_ok)
    \/ \E os_ok \in BOOLEAN : HandleKey(os_ok)

SpecRun == InitLoop /\ [][NextRun]_vars

Returned == pc \in {"returned_ok", "returned_err"}

\* C5: once the child has exited, the event loop eventually returns.
C5_ChildExitReturns == (child = "exited") ~> Returned

\* C6: Pty::read succeeds only with a byte count >= 1, and at end of file it
\* fails with ChildExited.
C6_ReadContract ==
    lastIo.op = "read" =>
        /\ lastIo.result.ok => lastIo.result.n >= 1
        /\ lastIo.os = "eof" => (~lastIo.result.ok /\ lastIo.result.err = "ChildExited")

\* C7: once the arm that met an I/O error of a read or a write on the master
\* has run, the loop has returned an error.
C7_IoErrorFatal ==
    (lastIo.os = "error" /\ pc \notin {"display", "output"}) => pc = "returned_err"

(***************************************************************************)
(* Terminal::resize over pixel sizes whose cell count does not fit the     *)
(* 16 bits of `as u16`.  Only resizes are applied here: what the parser    *)
(* callbacks do on an empty grid is not part of this specification.        *)
(***************************************************************************)
PixelWidths ==
    {0, CellWidth * MaxCols, CellWidth * U16, CellWidth * (U16 + MaxCols)}
PixelHeights ==
    {0, CellHeight * MaxRows, CellHeight * U16, CellHeight * (U16 + MaxRows)}

NextResize ==
    \E width \in PixelWidths, height \in PixelHeights, ioctl_ok \in BOOLEAN :
        TerminalResize(width, height, ioctl_ok)

SpecResize == Init /\ [][NextResize]_vars

\* C11: for every pixel size, the cols and rows Terminal::resize gives to the
\* PTY and to the grid are both >= 1.
C11_ResizeAtLeastOne ==
    last = "resize" =>
        /\ lastResize[1] >= 1 /\ lastResize[2] >= 1
        /\ performer.grid.rows >= 1 /\ performer.grid.cols >= 1

(***************************************************************************)
(* Key-binding strings: impl Display for Key and parse_key_binding.  A     *)
(* string is the sequence of the code points of its chars, so "Ctrl+c" is  *)
(* <<67, 116, 114, 108, 43, 99>>.                                          *)
(***************************************************************************)
PLUS == 43

\* format!("{}", n) of a u8
decimal(n) ==
    IF n < 10 THEN <<48 + n>>
    ELSE IF n < 100 THEN <<48 + (n \div 10), 48 + (n % 10)>>
    ELSE <<48 + (n \div 100), 48 + ((n \div 10) % 10), 48 + (n % 10)>>

\* the key_name of Display::fmt
key_name(code) ==
    CASE code.tag = "Char" -> <<code.arg>>
      [] code.tag = "F" -> <<70>> \o decimal(code.arg)
      [] code.tag = "Enter" -> <<69, 110, 116, 101, 114>>
      [] code.tag = "Tab" -> <<84, 97, 98>>
      [] code.tag = "Backspace" -> <<66, 97, 99, 107, 115, 112, 97, 99, 101>>
      [] code.tag = "Delete" -> <<68, 101, 108, 101, 116, 101>>
      [] code.tag = "Insert" -> <<73, 110, 115, 101, 114, 116>>
      [] code.tag = "Home" -> <<72, 111, 109, 101>>
      [] code.tag = "End" -> <<69, 110, 100>>
      [] code.tag = "PageUp" -> <<80, 97, 103, 101, 85, 112>>
      [] code.tag = "PageDown" -> <<80, 97, 103, 101, 68, 111, 119, 110>>
      [] code.tag = "Up" -> <<85, 112>>
      [] code.tag = "Down" -> <<68, 111, 119, 110>>
      [] code.tag = "Left" -> <<76, 101, 102, 116>>
      [] code.tag = "Right" -> <<82, 105, 103, 104, 116>>
      [] code.tag = "Escape" -> <<69, 115, 99, 97, 112, 101>>
      [] code.tag = "CapsLock" -> <<67, 97, 112, 115, 76, 111, 99, 107>>
      [] code.tag = "ScrollLock" -> <<83, 99, 114, 111, 108, 108, 76, 111, 99, 107>>
      [] code.tag = "NumLock" -> <<78, 117, 109, 76, 111, 99, 107>>
      [] code.tag = "PrintScreen" -> <<80, 114, 105, 110, 116, 83, 99, 114, 101, 101, 110>>
      [] code.tag = "Pause" -> <<80, 97, 117, 115, 101>>
      [] code.tag = "Menu" -> <<77, 101, 110, 117>>

RECURSIVE join(_, _)
join(parts, sep) ==
    IF Len(parts) = 0 THEN <<>>
    ELSE IF Len(parts) = 1 THEN parts[1]
    ELSE parts[1] \o <<sep>> \o join(Tail(parts), sep)

\* impl Display for Key: k.to_string()
to_string(k) ==
    LET parts ==
            (IF "CTRL" \in k.modifiers THEN <<<<67, 116, 114, 108>>>> ELSE <<>>)
            \o (IF "ALT" \in k.modifiers THEN <<<<65, 108, 116>>>> ELSE <<>>)
            \o (IF "SHIFT" \in k.modifiers THEN <<<<83, 104, 105, 102, 116>>>> ELSE <<>>)
            \o (IF "SUPER" \in k.modifiers THEN <<<<83, 117, 112, 101, 114>>>> ELSE <<>>)
            \o <<key_name(k.code)>>
    IN  join(parts, PLUS)

\* s.split(sep).collect(): the pieces between the separators, empty ones kept
RECURSIVE split(_, _, _)
split(s, sep, piece) ==
    IF Len(s) = 0 THEN <<piece>>
    ELSE IF Head(s) = sep THEN <<piece>> \o split(Tail(s), sep, <<>>)
    ELSE split(Tail(s), sep, Append(piece, Head(s)))

\* char lowercase, for ASCII and Latin-1 letters
char_to_lowercase(c) ==
    IF IsAsciiUpper(c) \/ (192 <= c /\ c <= 222 /\ c # 215) THEN c + 32 ELSE c

\* str::to_lowercase
to_lowercase(s) == [i \in 1..Len(s) |-> char_to_lowercase(s[i])]

\* str::len(): the length in bytes of the UTF-8 encoding
RECURSIVE str_len(_)
str_len(s) == IF Len(s) = 0 THEN 0 ELSE Len(utf8(Head(s))) + str_len(Tail(s))

\* s.parse::<u8>(): the value, or -1 for Err (empty, a non-digit, above 255)
RECURSIVE parse_digits(_, _)
parse_digits(s, acc) ==
    IF Len(s) = 0 THEN acc
    ELSE IF Head(s) < 48 \/ Head(s) > 57 THEN -1
    ELSE IF acc * 10 + (Head(s) - 48) >= U8 THEN -1
    ELSE parse_digits(Tail(s), acc * 10 + (Head(s) - 48))

parse_u8(s) == IF Len(s) = 0 THEN -1 ELSE parse_digits(s, 0)

KeyOk(k) == [ok |-> TRUE, key |-> k, err |-> ""]
KeyErr(e) == [ok |-> FALSE, key |-> NoKey, err |-> e]

\* the for loop of parse_key_binding over the parts still to read, then the
\* ok_or_else on key_code (<<>> is None, <<code>> is Some(code))
RECURSIVE parse_parts(_, _, _)
parse_parts(parts, modifiers, key_code) ==
    IF Len(parts) = 0
    THEN IF key_code = <<>>
         THEN KeyErr("No key code found")
         ELSE KeyOk(Key_new(key_code[1], modifiers))
    ELSE
    LET l == to_lowercase(Head(parts))
    IN  CASE l = <<99, 116, 114, 108>> ->
                parse_parts(Tail(parts), modifiers \cup {"CTRL"}, key_code)
          [] l = <<97, 108, 116>> ->
                parse_parts(Tail(parts), modifiers \cup {"ALT"}, key_code)
          [] l = <<115, 104, 105, 102, 116>> ->
                parse_parts(Tail(parts), modifiers \cup {"SHIFT"}, key_code)
          [] l = <<115, 117, 112, 101, 114>> \/ l = <<99, 109, 100>> ->
                parse_parts(Tail(parts), modifiers \cup {"SUPER"}, key_code)
      [] l = <<101, 110, 116, 101, 114>> -> parse_parts(Tail(parts), modifiers, <<Named("Enter")>>)
      [] l = <<116, 97, 98>> -> parse_parts(Tail(parts), modifiers, <<Named("Tab")>>)
      [] l = <<98, 97, 99, 107, 115, 112, 97, 99, 101>> -> parse_parts(Tail(parts), modifiers, <<Named("Backspace")>>)
      [] l = <<100, 101, 108, 101, 116, 101>> -> parse_parts(Tail(parts), modifiers, <<Named("Delete")>>)
      [] l = <<105, 110, 115, 101, 114, 116>> -> parse_parts(Tail(parts), modifiers, <<Named("Insert")>>)
      [] l = <<104, 111, 109, 101>> -> parse_parts(Tail(parts), modifiers, <<Named("Home")>>)
      [] l = <<101, 110, 100>> -> parse_parts(Tail(parts), modifiers, <<Named("End")>>)
      [] l = <<112, 97, 103, 101, 117, 112>> -> parse_parts(Tail(parts), modifiers, <<Named("PageUp")>>)
      [] l = <<112, 97, 103, 101, 100, 111, 119, 110>> -> parse_parts(Tail(parts), modifiers, <<Named("PageDown")>>)
      [] l = <<117, 112>> -> parse_parts(Tail(parts), modifiers, <<Named("Up")>>)
      [] l = <<100, 111, 119, 110>> -> parse_parts(Tail(parts), modifiers, <<Named("Down")>>)
      [] l = <<108, 101, 102, 116>> -> parse_parts(Tail(parts), modifiers, <<Named("Left")>>)
      [] l = <<114, 105, 103, 104, 116>> -> parse_parts(Tail(parts), modifiers, <<Named("Right")>>)
      [] l = <<101, 115, 99, 97, 112, 101>> -> parse_parts(Tail(parts), modifiers, <<Named("Escape")>>)
          [] OTHER ->
                IF Len(l) >= 1 /\ l[1] = 102 /\ str_len(l) > 1
                THEN LET n == parse_u8(Tail(l))
                     IN  IF n >= 1 /\ n <= 12
                         THEN parse_parts(Tail(parts), modifiers, <<F(n)>>)
                         ELSE parse_parts(Tail(parts), modifiers, key_code)
                ELSE IF str_len(l) = 1
                     THEN parse_parts(Tail(parts), modifiers, <<Char(l[1])>>)
                     ELSE KeyErr("Unknown key")

parse_key_binding(s) == parse_parts(split(s, PLUS, <<>>), {}, <<>>)

\* binding strings given by a configuration:
\*   "a"
\*   "Ctrl+c"
\*   "Ctrl+Shift+F1"
\*   "Alt+Tab"
\*   "Invalid+Key"
\*   "Ctrl+"
\*   ""
\*   "Ctrl"
\*   "CTRL+ENTER"
\*   "cmd+f"
\*   "Ctrl+foo+a"
\*   "F13+a"
\*   "f1x+Up"
\*   "F0"
\*   "f300"
\*   "Menu"
\*   "É"
\*   "a+b"
BindingStrings ==
    {<<97>>,
     <<67, 116, 114, 108, 43, 99>>,
     <<67, 116, 114, 108, 43, 83, 104, 105, 102, 116, 43, 70, 49>>,
     <<65, 108, 116, 43, 84, 97, 98>>,
     <<73, 110, 118, 97, 108, 105, 100, 43, 75, 101, 121>>,
     <<67, 116, 114, 108, 43>>,
     <<>>,
     <<67, 116, 114, 108>>,
     <<67, 84, 82, 76, 43, 69, 78, 84, 69, 82>>,
     <<99, 109, 100, 43, 102>>,
     <<67, 116, 114, 108, 43, 102, 111, 111, 43, 97>>,
     <<70, 49, 51, 43, 97>>,
     <<102, 49, 120, 43, 85, 112>>,
     <<70, 48>>,
     <<102, 51, 48, 48>>,
     <<77, 101, 110, 117>>,
     <<201>>,
     <<97, 43, 98>>}

InitBinding ==
    /\ ScreenIdle
    /\ LoopIdle
    /\ key \in {Key_new(code, m) : code \in KeyCodes, m \in ModifierSets}
    /\ encoded = <<>>
    /\ overflow_checks = TRUE
    /\ binding = <<>>
    /\ parsed = <<>>
    /\ color = NoColor
    /\ channel = WaylandState_new

\* key.to_string()
Format ==
    /\ binding = <<>>
    /\ binding' = <<to_string(key)>>
    /\ last' = "format"
    /\ UNCHANGED <<performer, status, steps, snap, lastResize, loopVars, key, encoded,
                   overflow_checks, parsed, color, channel>>

\* a binding string read from the configuration
GiveBinding(s) ==
    /\ binding = <<>>
    /\ key = NoKey
    /\ binding' = <<s>>
    /\ last' = "given"
    /\ UNCHANGED <<performer, status, steps, snap, lastResize, loopVars, key, encoded,
                   overflow_checks, parsed, color, channel>>

\* parse_key_binding(&binding)
ParseBinding ==
    /\ binding # <<>>
    /\ parsed = <<>>
    /\ parsed' = <<parse_key_binding(binding[1])>>
    /\ UNCHANGED <<screenVars, loopVars, key, encoded, overflow_checks, binding, color, channel>>

NextBinding ==
    \/ Format
    \/ \E s \in BindingStrings : GiveBinding(s)
    \/ ParseBinding

SpecBinding == InitBinding /\ [][NextBinding]_vars

\* C12: for every key k the formatter can print, parse_key_binding of
\* k.to_string() succeeds and returns a Key equal to k.
C12_FormatParseRoundTrip ==
    (last = "format" /\ parsed # <<>>) => (parsed[1].ok /\ parsed[1].key = key)

\* the tokens a binding string may hold, compared without regard to case
ModifierNames ==
    {to_lowercase(n) : n \in {<<67, 116, 114, 108>>, <<65, 108, 116>>,
                              <<83, 104, 105, 102, 116>>, <<83, 117, 112, 101, 114>>,
                              <<99, 109, 100>>}}
NamedKeyNames == {to_lowercase(key_name(Named(t))) : t \in NamedKeys}
FunctionKeyNames == {to_lowercase(key_name(F(n))) : n \in 1..12}

IsKeyToken(part) ==
    \/ to_lowercase(part) \in NamedKeyNames \cup FunctionKeyNames
    \/ Len(part) = 1
IsKnownToken(part) == to_lowercase(part) \in ModifierNames \/ IsKeyToken(part)

\* C13: parse_key_binding returns an error for every string holding a token
\* that is not a modifier name, a named key, F1..F12 or a single character,
\* and for every string with no key token.
C13_UnknownTokenRejected ==
    (last = "given" /\ parsed # <<>>) =>
        LET parts == split(binding[1], PLUS, <<>>)
        IN  (\/ \E i \in 1..Len(parts) : ~IsKnownToken(parts[i])
             \/ \A i \in 1..Len(parts) : ~IsKeyToken(parts[i]))
            => ~parsed[1].ok

(***************************************************************************)
(* Properties of single parser events.                                     *)
(***************************************************************************)
\* C14: an OSC with code 0 or 2 and a valid UTF-8 payload replaces the title
\* with the payload; any other OSC leaves the title unchanged.
C14_OscTitle ==
    [][\A params \in OscParams :
          PerformOsc(params) =>
              performer'.title =
                  IF /\ Len(params) >= 2
                     /\ params[1] \in {"0", "2"}
                     /\ params[2] # InvalidUtf8
                  THEN params[2]
                  ELSE performer.title]_vars

\* colors.normal of ColorConfig::default(): the 8-colour palette
Palette ==
    <<<<0, 0, 0>>, <<128, 0, 0>>, <<0, 128, 0>>, <<128, 128, 0>>,
      <<0, 0, 128>>, <<128, 0, 128>>, <<0, 128, 128>>, <<192, 192, 192>>>>

\* C15: SGR 30-37 sets the active foreground to entry (value - 30) of the
\* 8-colour palette, SGR 40-47 the active background to entry (value - 40).
C15_SgrPalette ==
    [][\A params \in SgrParams :
          (Len(params) = 1 /\ PerformCsi(params, "m") /\ status' = "running") =>
              /\ params[1] \in 30..37 =>
                    performer'.current_fg = Palette[params[1] - 30 + 1]
              /\ params[1] \in 40..47 =>
                    performer'.current_bg = Palette[params[1] - 40 + 1]]_vars

(***************************************************************************)
(* The screen after the window was resized once: Terminal::new followed by *)
(* a successful Terminal::resize, then parser events and further resizes.  *)
(***************************************************************************)
InitRegion ==
    /\ performer \in
          {Terminal_resize(TerminalPerformer_new(r, c, cfg), width, height, TRUE) :
              r \in 1..MaxRows, c \in 1..MaxCols,
              cfg \in {k \in Configs : k.foreground = White},
              width \in Widths, height \in Heights}
    /\ status = "running"
    /\ steps = 0
    /\ last = "resize"
    /\ snap = <<>>
    /\ lastResize = <<performer.grid.rows, performer.grid.cols>>
    /\ LoopIdle
    /\ KeyIdle

NextRegion ==
    \/ PerformPrint("A")
    \/ PerformExecute(LF)
    \/ \E c \in {"A", "B", "H"} : \E params \in CsiParams(c) : PerformCsi(params, c)
    \/ \E width \in Widths, height \in Heights, ioctl_ok \in BOOLEAN :
          TerminalResize(width, height, ioctl_ok)

SpecRegion == InitRegion /\ [][NextRegion]_vars

\* the visible rows outside the scroll region, 0-based
OutsideRegion(p) ==
    {r \in 0..(Len(p.grid.cells) - 1) : r < p.scroll_region[1] \/ r > p.scroll_region[2]}

\* C16: when a LF or an autowrap at the bottom of the scroll region scrolls,
\* every visible row outside the scroll region keeps its content and position
\* (for the autowrap: every such row but the one the character is written to).
C16_ScrollKeepsOutsideRows ==
    [][(/\ performer.cursor.row = performer.scroll_region[2]
        /\ status' = "running"
        /\ \/ PerformExecute(LF)
           \/ /\ PerformPrint("A")
              /\ performer.auto_wrap_mode
              /\ performer.cursor.col = performer.grid.cols - 1)
       => \A r \in OutsideRegion(performer) \ {performer.cursor.row} :
             /\ r < Len(performer'.grid.cells)
             /\ performer'.grid.cells[r + 1] = performer.grid.cells[r + 1]]_vars

\* C17: after every resize the scroll region is the full screen,
\* scroll_region == (0, rows - 1) for the new row count, and
\* scroll_region.bottom < rows holds in every reachable state.
C17_ResizeResetsRegion ==
    /\ last = "resize" => performer.scroll_region = <<0, performer.grid.rows - 1>>
    /\ performer.scroll_region[2] < performer.grid.rows

\* C18: CSI P1;P2 r sets the scroll region to [P1-1, P2-1], clamped to the grid.
C18_SetScrollRegion ==
    [][\A params \in CsiParams("r") :
          (PerformCsi(params, "r") /\ status' = "running") =>
              performer'.scroll_region =
                  <<Min(FirstParam(params, 1) - 1, performer.grid.rows - 1),
                    Min(SecondParam(params, performer.grid.rows) - 1,
                        performer.grid.rows - 1)>>]_vars

(***************************************************************************)
(* The Grid with both scroll directions: the calls of SpecGrid and         *)
(* Grid::scroll_down.                                                      *)
(***************************************************************************)
\* one turn of the loop of Grid::scroll_down: insert(0, row) then pop()
scroll_down_once(g) ==
    LET row == IF Len(g.scrollback) > 0
               THEN g.scrollback[Len(g.scrollback)]
               ELSE BlankRow(g.cols)
        sb == IF Len(g.scrollback) > 0
              THEN SubSeq(g.scrollback, 1, Len(g.scrollback) - 1)
              ELSE g.scrollback
    IN  [g EXCEPT !.scrollback = sb,
                  !.cells = SubSeq(<<row>> \o g.cells, 1, Len(g.cells))]

RECURSIVE Grid_scroll_down(_, _)
Grid_scroll_down(g, lines) ==
    IF lines = 0 THEN g ELSE Grid_scroll_down(scroll_down_once(g), lines - 1)

GridScrollDown(lines) ==
    /\ Apply(FALSE, [performer EXCEPT !.grid = Grid_scroll_down(@, lines)], "scroll_down")
    /\ UNCHANGED <<snap, lastResize, loopVars, keyVars>>

NextScroll ==
    \/ NextGrid
    \/ \E lines \in 0..MaxLines : GridScrollDown(lines)

SpecScroll == InitGrid /\ [][NextScroll]_vars

\* sb2 is sb1 with some rows dropped from the front, no more than were
\* appended at the back, and the rows kept are unchanged
FifoStep(sb1, sb2) ==
    \E k \in 0..Len(sb1) :
        LET kept == SubSeq(sb1, k + 1, Len(sb1))
        IN  /\ Len(sb2) >= Len(kept)
            /\ SubSeq(sb2, 1, Len(kept)) = kept
            /\ k <= Len(sb2) - Len(kept)

\* C19: a one-line scroll-up discards the oldest scrollback row if the
\* scrollback is full, appends the evicted top row unchanged, shifts the
\* visible rows up and blanks the bottom row; no step mutates a scrollback
\* entry or removes one other than from the front on overflow.
C19_ScrollbackFifo ==
    [][/\ (GridScrollUp(1) /\ status' = "running") =>
            /\ performer'.grid.scrollback =
                  (IF Len(performer.grid.scrollback) >= performer.grid.scrollback_limit
                   THEN Rest(performer.grid.scrollback)
                   ELSE performer.grid.scrollback)
                  \o <<performer.grid.cells[1]>>
            /\ performer'.grid.cells =
                  Rest(performer.grid.cells) \o <<BlankRow(performer.grid.cols)>>
       /\ FifoStep(performer.grid.scrollback, performer'.grid.scrollback)]_vars

\* C20: the bytes written to the PTY are the concatenation of to_bytes() of
\* the keys in the order the loop received them: the arm of a key appends
\* exactly that key's bytes (a prefix of them if the write fails, which ends
\* the loop) and no other step writes.
C20_KeysWrittenInOrder ==
    [][LET isKey == pc = "display" /\ status = "running" /\ ready[2][1] = "Key"
       IN  IF isKey /\ pc' = "select"
           THEN written' = written \o to_bytes(ready[2][2], overflow_checks).bytes
           ELSE IF isKey /\ pc' = "returned_err"
           THEN \E k \in 0..Len(to_bytes(ready[2][2], overflow_checks).bytes) :
                   written' =
                       written \o SubSeq(to_bytes(ready[2][2], overflow_checks).bytes, 1, k)
           ELSE written' = written]_vars

\* 'a' then Shift+Up were received, in that order, and both were written
C20_Witness ==
    /\ pc = "select"
    /\ last = "key"
    /\ written = <<97>> \o ArrowBytes({"SHIFT"}, 65)

(***************************************************************************)
(* The output of the child as a byte stream that successive reads cut      *)
(* into chunks (Terminal::next_output called once per loop iteration).     *)
(***************************************************************************)
MaxStream == 4
StreamBytes == {66, LF, ESC, LBRACKET, 50}

RECURSIVE SeqsUpTo(_, _)
SeqsUpTo(S, n) ==
    IF n = 0 THEN {<<>>}
    ELSE LET shorter == SeqsUpTo(S, n - 1)
         IN  shorter \cup {Append(q, b) : q \in {x \in shorter : Len(x) = n - 1}, b \in S}

Streams == SeqsUpTo(StreamBytes, MaxStream) \ {<<>>}

InitStream ==
    /\ performer \in {TerminalPerformer_new(LoopRows, LoopCols, cfg) :
                         cfg \in {k \in Configs : k.foreground = White}}
    /\ status = "running"
    /\ steps = 0
    /\ last = "new"
    /\ snap = <<>>
    /\ lastResize = <<>>
    /\ pty = Pty_spawned
    /\ child = "running"
    /\ pc = "select"
    /\ ready = <<>>
    /\ lastIo = IoNone
    /\ written = <<>>
    /\ parser = Parser_new
    /\ pending \in Streams
    /\ consumed = <<>>
    /\ signals = <<>>
    /\ KeyIdle

\* one call of next_output whose read returns the first n pending bytes
ReadChunk(n) ==
    /\ status = "running"
    /\ n \in 1..Len(pending)
    /\ LET os == OsData(SubSeq(pending, 1, n))
           out == next_output(performer, parser, pty, os)
       IN  /\ performer' = out.performer
           /\ parser' = out.parser
           /\ lastIo' = [op |-> "read", os |-> os.os, result |-> Pty_read(pty, os)]
    /\ pending' = SubSeq(pending, n + 1, Len(pending))
    /\ consumed' = consumed \o SubSeq(pending, 1, n)
    /\ last' = "output"
    /\ UNCHANGED <<status, steps, snap, lastResize, pty, child, pc, ready, written, signals,
                   keyVars>>

NextStream == \E n \in 1..MaxStream : ReadChunk(n)

SpecStream == InitStream /\ [][NextStream]_vars

\* the performer Terminal::new builds for the size and configuration of p
Fresh(p) ==
    TerminalPerformer_new(p.grid.rows, p.grid.cols,
        [foreground |-> p.default_fg, background |-> p.default_bg,
         scrollback_lines |-> p.grid.scrollback_limit, cursor_shape |-> p.cursor.shape])

\* C21: however the bytes are cut into reads, the screen state (and the parser
\* state) after the reads is the one a single read of all the bytes consumed
\* so far gives.
C21_SplitReadsEqualOneRead ==
    LET whole == advance_all([performer |-> Fresh(performer), parser |-> Parser_new],
                             consumed)
    IN  performer = whole.performer /\ parser = whole.parser

\* a control sequence cut before its final byte moved the cursor down
C21_Witness ==
    /\ consumed = <<ESC, LBRACKET, 66>>
    /\ lastIo.op = "read" /\ lastIo.result.n = 1
    /\ performer.cursor.row = 1
    /\ parser = Parser_new

(***************************************************************************)
(* Arrow keys and unknown keys.                                            *)
(***************************************************************************)
ArrowFinal(tag) ==
    CASE tag = "Up" -> 65 [] tag = "Down" -> 66 [] tag = "Right" -> 67 [] tag = "Left" -> 68

ArrowKeys == {"Up", "Down", "Right", "Left"}

\* C22: an arrow key encodes to ESC [ X without Ctrl and Shift, to
\* ESC [ 1 ; 5 X with Ctrl, and to ESC [ 1 ; 2 X with Shift and no Ctrl
\* (X = A, B, C, D for Up, Down, Right, Left).
C22_ArrowKeys ==
    (encoded # <<>> /\ key.code.tag \in ArrowKeys) =>
        LET X == ArrowFinal(key.code.tag)
            m == key.modifiers
        IN  /\ ~encoded[1].panic
            /\ ("CTRL" \notin m /\ "SHIFT" \notin m) => encoded[1].bytes = <<27, 91, X>>
            /\ "CTRL" \in m => encoded[1].bytes = <<27, 91, 49, 59, 53, X>>
            /\ ("SHIFT" \in m /\ "CTRL" \notin m) =>
                   encoded[1].bytes = <<27, 91, 49, 59, 50, X>>

\* Ctrl+Shift+Left was encoded
C22_Witness ==
    /\ key = Key_new(Named("Left"), {"CTRL", "SHIFT"})
    /\ encoded = <<Bytes(<<27, 91, 49, 59, 53, 68>>)>>

\* the keys to_bytes has no sequence for
UnknownKey(k) ==
    \/ k.code.tag = "F" /\ k.code.arg \notin 1..12
    \/ k.code.tag \in {"CapsLock", "ScrollLock", "NumLock", "PrintScreen", "Pause", "Menu"}

\* the loop has just received Event::Key(k), for any key k
InitKeyEvent ==
    /\ performer \in {TerminalPerformer_new(LoopRows, LoopCols, cfg) :
                         cfg \in {k \in Configs : k.foreground = White}}
    /\ status = "running"
    /\ steps = 0
    /\ last = "new"
    /\ snap = <<>>
    /\ lastResize = <<>>
    /\ pty = Pty_spawned
    /\ child = "running"
    /\ pc = "display"
    /\ ready \in {<<"display", <<"Key", Key_new(code, m)>>>> :
                     code \in KeyCodes, m \in ModifierSets}
    /\ lastIo = IoNone
    /\ written = <<>>
    /\ parser = Parser_new
    /\ pending = <<>>
    /\ consumed = <<>>
    /\ signals = <<>>
    /\ key = NoKey
    /\ encoded = <<>>
    /\ overflow_checks \in BOOLEAN
    /\ binding = <<>>
    /\ parsed = <<>>
    /\ color = NoColor
    /\ channel = WaylandState_new

NextKeyEvent == \E os_ok \in BOOLEAN : HandleKey(os_ok)

SpecKeyEvent == InitKeyEvent /\ [][NextKeyEvent]_vars

\* C23: an unknown key (F(n) with n outside 1..12, CapsLock, ScrollLock,
\* NumLock, PrintScreen, Pause, Menu; any modifiers) encodes to no bytes, and
\* the loop performs no write on the PTY for it.
C23_UnknownKeyNoWrite ==
    (last = "key" /\ UnknownKey(key)) =>
        /\ encoded = <<Bytes(<<>>)>>
        /\ written = <<>>
        /\ lastIo = IoNone
        /\ pc = "select"

\* Ctrl+F13 was handled; a known key did cause a write
C23_Witness ==
    /\ last = "key"
    /\ key = Key_new(F(13), {"CTRL"})
    /\ encoded = <<Bytes(<<>>)>>
    /\ lastIo.op = "none"

(***************************************************************************)
(* config::parse_color.  A string is its sequence of code points; Rust     *)
(* measures and slices it by UTF-8 bytes.                                  *)
(***************************************************************************)
HASH == 35

RECURSIVE byte_len(_)
\* str::len(): the number of UTF-8 bytes
byte_len(s) == IF Len(s) = 0 THEN 0 ELSE Len(utf8(Head(s))) + byte_len(Tail(s))

\* the byte offsets at which a character of s starts, and the end of s
char_boundaries(s) == {byte_len(SubSeq(s, 1, k)) : k \in 0..Len(s)}

\* &s[a..b]: panics unless a and b are character boundaries
byte_slice(s, a, b) ==
    IF a \in char_boundaries(s) /\ b \in char_boundaries(s)
    THEN LET from == CHOOSE k \in 0..Len(s) : byte_len(SubSeq(s, 1, k)) = a
             to == CHOOSE k \in 0..Len(s) : byte_len(SubSeq(s, 1, k)) = b
         IN  [panic |-> FALSE, str |-> SubSeq(s, from + 1, to)]
    ELSE [panic |-> TRUE, str |-> <<>>]

\* char::to_digit(16), -1 for None
hex_digit(c) ==
    IF 48 <= c /\ c <= 57 THEN c - 48
    ELSE IF 97 <= c /\ c <= 102 THEN c - 97 + 10
    ELSE IF 65 <= c /\ c <= 70 THEN c - 65 + 10
    ELSE -1

RECURSIVE radix16(_, _)
\* the digits of from_str_radix, most significant first; -1 for an error
radix16(digits, acc) ==
    IF Len(digits) = 0 THEN acc
    ELSE IF hex_digit(Head(digits)) < 0 \/ acc * 16 + hex_digit(Head(digits)) >= U8 THEN -1
    ELSE radix16(Tail(digits), acc * 16 + hex_digit(Head(digits)))

\* u8::from_str_radix(src, 16): an optional '+', then hexadecimal digits;
\* -1 for Err
from_str_radix(src) ==
    IF Len(src) = 0 THEN -1
    ELSE IF Len(src) = 1 /\ Head(src) \in {43, 45} THEN -1
    ELSE IF Head(src) = 43 THEN radix16(Tail(src), 0)
    ELSE radix16(src, 0)

ColorOk(r, g, b) == [panic |-> FALSE, ok |-> TRUE, rgb |-> <<r, g, b>>]
ColorErr == [panic |-> FALSE, ok |-> FALSE, rgb |-> <<>>]
ColorPanic == [panic |-> TRUE, ok |-> FALSE, rgb |-> <<>>]

parse_color(color_str) ==
    IF Len(color_str) >= 1 /\ Head(color_str) = HASH
    THEN LET hex == Tail(color_str)
             rs == byte_slice(hex, 0, 2)
             gs == byte_slice(hex, 2, 4)
             bs == byte_slice(hex, 4, 6)
         IN  IF byte_len(hex) # 6 THEN ColorErr
             ELSE IF rs.panic THEN ColorPanic
             ELSE IF from_str_radix(rs.str) < 0 THEN ColorErr
             ELSE IF gs.panic THEN ColorPanic
             ELSE IF from_str_radix(gs.str) < 0 THEN ColorErr
             ELSE IF bs.panic THEN ColorPanic
             ELSE IF from_str_radix(bs.str) < 0 THEN ColorErr
             ELSE ColorOk(from_str_radix(rs.str), from_str_radix(gs.str),
                          from_str_radix(bs.str))
    ELSE ColorErr

\* the lower-case hexadecimal digit of d in 0..15, and the two digits of a byte
hex_char(d) == IF d < 10 THEN 48 + d ELSE 97 + (d - 10)
hex2(n) == <<hex_char(n \div 16), hex_char(n % 16)>>
\* "#rrggbb"
format_hex(r, g, b) == <<HASH>> \o hex2(r) \o hex2(g) \o hex2(b)

ColorBytes == {0, 10, 171, 255}
\* formatted colours, "#FFAB0a", and strings that are not '#' and six digits:
\* "", "#", "invalid", "ff0000", "#ff00", "#ff00000", "#gg0000", "#+f+f+f",
\* "#-10000", "#a" U+00E9 "000", "#" U+00E9 "0000"
ColorStrings ==
    {format_hex(r, g, b) : r \in ColorBytes, g \in ColorBytes, b \in ColorBytes}
        \cup {<<HASH, 70, 70, 65, 66, 48, 97>>,
              <<>>, <<HASH>>, <<105, 110, 118, 97, 108, 105, 100>>,
              <<102, 102, 48, 48, 48, 48>>, <<HASH, 102, 102, 48, 48>>,
              <<HASH, 102, 102, 48, 48, 48, 48, 48>>,
              <<HASH, 103, 103, 48, 48, 48, 48>>,
              <<HASH, 43, 102, 43, 102, 43, 102>>,
              <<HASH, 45, 49, 48, 48, 48, 48>>,
              <<HASH, 97, 233, 48, 48, 48>>,
              <<HASH, 233, 48, 48, 48, 48>>}

InitColor ==
    /\ ScreenIdle
    /\ LoopIdle
    /\ key = NoKey
    /\ encoded = <<>>
    /\ overflow_checks = TRUE
    /\ binding = <<>>
    /\ parsed = <<>>
    /\ color \in {[str |-> s, result |-> <<>>] : s \in ColorStrings}
    /\ channel = WaylandState_new

ParseColor ==
    /\ color.result = <<>>
    /\ color' = [color EXCEPT !.result = <<parse_color(color.str)>>]
    /\ UNCHANGED <<screenVars, loopVars, key, encoded, overflow_checks, binding, parsed, channel>>

NextColor == ParseColor

SpecColor == InitColor /\ [][NextColor]_vars

\* '#' followed by exactly six hexadecimal digits, and the bytes they denote
IsHashHex6(s) == Len(s) = 7 /\ s[1] = HASH /\ \A i \in 2..7 : hex_digit(s[i]) >= 0
Denoted(s) ==
    <<16 * hex_digit(s[2]) + hex_digit(s[3]), 16 * hex_digit(s[4]) + hex_digit(s[5]),
      16 * hex_digit(s[6]) + hex_digit(s[7])>>

\* C24: parse_color succeeds exactly on '#' followed by six hexadecimal
\* digits and then returns the three bytes they denote; every other string
\* yields an error.
C24_ParseColorExact ==
    color.result # <<>> =>
        /\ ~color.result[1].panic
        /\ color.result[1].ok <=> IsHashHex6(color.str)
        /\ color.result[1].ok => color.result[1].rgb = Denoted(color.str)

(***************************************************************************)
(* The rendition.  The terminal starts here after one CSI m, so that every *)
(* event is met under several renditions within MaxSteps steps.            *)
(***************************************************************************)
AllFlags == {"BOLD", "DIM", "ITALIC", "UNDERLINE", "REVERSE"}
StartSgr == {<<>>, <<2, 3>>, <<1, 2, 3, 4, 7>>}

InitRendition ==
    /\ performer \in
          {csi_dispatch(TerminalPerformer_new(LoopRows, LoopCols, cfg), params, "m") :
              cfg \in {k \in Configs : k.scrollback_lines = MaxLimit},
              params \in StartSgr}
    /\ status = "running"
    /\ steps = 0
    /\ last = "csi"
    /\ snap = <<>>
    /\ lastResize = <<>>
    /\ LoopIdle
    /\ KeyIdle

SpecRendition == InitRendition /\ [][Next]_vars

\* C25: from any rendition, SGR 0 makes the current colours the default ones
\* and leaves no flag set.
C25_SgrZeroResets ==
    [][PerformCsi(<<0>>, "m") =>
          /\ performer'.current_fg = performer'.default_fg
          /\ performer'.current_bg = performer'.default_bg
          /\ performer'.current_flags = {}]_vars

\* all five flags were set and saved by ESC 7, then SGR 0 cleared them
C25_Witness ==
    /\ steps = 2
    /\ last = "csi"
    /\ snap # <<>>
    /\ snap[1].rendition.flags = AllFlags
    /\ Rendition(performer) =
          [fg |-> performer.default_fg, bg |-> performer.default_bg, flags |-> {}]

\* C26: a step that changes current_fg, current_bg or current_flags is a
\* CSI m; print, C0 execute, every other CSI, OSC, ESC and resize leave them
\* unchanged.
C26_OnlySgrChangesRendition ==
    [][\/ Rendition(performer') = Rendition(performer)
       \/ \E params \in SgrParams : PerformCsi(params, "m")]_vars

\* a resize was applied and all five flags are still set
C26_Witness ==
    /\ steps = 1
    /\ last = "resize"
    /\ lastResize # <<>>
    /\ performer.current_flags = AllFlags

(***************************************************************************)
(* Erasing under a rendition.                                              *)
(***************************************************************************)
InitErase ==
    /\ performer \in
          {csi_dispatch(TerminalPerformer_new(LoopRows, LoopCols, cfg), params, "m") :
              cfg \in {k \in Configs : k.scrollback_lines = MaxLimit},
              params \in StartSgr}
    /\ status = "running"
    /\ steps = 0
    /\ last = "new"
    /\ snap = <<>>
    /\ lastResize = <<>>
    /\ LoopIdle
    /\ KeyIdle

Erase == \E c \in {"J", "K"} : \E params \in EraseParams : PerformCsi(params, c)

NextErase ==
    \/ PerformPrint("A")
    \/ Erase
    \/ PerformCsi(<<>>, "H")

SpecErase == InitErase /\ [][NextErase]_vars

\* the value of Cell::default()
ErasedCell == [c |-> " ", fg |-> White, bg |-> Black, flags |-> {}]

AllErased(g) ==
    \A r \in 1..Len(g.cells) : \A i \in 1..Len(g.cells[r]) : g.cells[r][i] = ErasedCell

\* C27: after CSI J or CSI K every cell that changed is the default Cell
\* (space, default colours, no flags) whatever the current rendition; the
\* cell under the cursor is erased by modes 0, 1 and 2; CSI 2 J leaves every
\* cell default, and a following CSI H puts the cursor at (0, 0).
C27_EraseWritesDefaultCell ==
    [][/\ Erase =>
            /\ Len(performer'.grid.cells) = Len(performer.grid.cells)
            /\ \A r \in 1..Len(performer.grid.cells) :
                  /\ Len(performer'.grid.cells[r]) = Len(performer.grid.cells[r])
                  /\ \A i \in 1..Len(performer.grid.cells[r]) :
                        \/ performer'.grid.cells[r][i] = performer.grid.cells[r][i]
                        \/ performer'.grid.cells[r][i] = ErasedCell
            /\ Rendition(performer') = Rendition(performer)
       /\ \A c \in {"J", "K"} : \A params \in {<<>>, <<0>>, <<1>>, <<2>>} :
            PerformCsi(params, c) =>
                performer'.grid.cells[performer.cursor.row + 1][performer.cursor.col + 1]
                    = ErasedCell
       /\ PerformCsi(<<2>>, "J") => AllErased(performer'.grid)
       /\ (PerformCsi(<<>>, "H") /\ AllErased(performer.grid)) =>
            /\ AllErased(performer'.grid)
            /\ performer'.cursor.row = 0 /\ performer'.cursor.col = 0]_vars

\* 'A' was printed with all five flags set and the next step erased it
C27_Witness ==
    /\ steps = 2
    /\ last = "csi"
    /\ performer.cursor.row = 0 /\ performer.cursor.col = 1
    /\ performer.current_flags = AllFlags
    /\ AllErased(performer.grid)

(***************************************************************************)
(* main from Terminal::start_shell to the drop of the Pty, with the forked *)
(* child's own steps through the Child branch of spawn_shell.              *)
(*   child: "none", "forked" (in the Child branch), "execve" (about to     *)
(*   call execve), "running" (the shell), "returned:setup" and             *)
(*   "returned:execve" (spawn_shell returned Err in the child process),    *)
(*   "exited" (the shell exited), "exited:1" (the child's main returned    *)
(*   Err), "reaped".                                                       *)
(***************************************************************************)
\* a Pty whose fork succeeded and whose close(slave_fd) failed
Pty_forked_only == [child_pid |-> "Some", master_file |-> "None"]

\* a plausible slip: drop waits for the child after the signal
Pty_drop_waits(t) ==
    [kill |-> t.child_pid = "Some", waits |-> t.child_pid = "Some",
     close_master |-> t.master_file = "None"]

\* Drop for Pty: what it does with the child and the master descriptor
Pty_drop(t) ==
    [kill |-> t.child_pid = "Some", waits |-> FALSE,
     close_master |-> t.master_file = "None"]

InitMain ==
    /\ performer \in {TerminalPerformer_new(LoopRows, LoopCols, cfg) :
                         cfg \in {k \in Configs : k.foreground = White}}
    /\ status = "running"
    /\ steps = 0
    /\ last = "new"
    /\ snap = <<>>
    /\ lastResize = <<>>
    /\ pty = Pty_new
    /\ child = "none"
    /\ pc = "start_shell"
    /\ ready = <<>>
    /\ lastIo = IoNone
    /\ written = <<>>
    /\ parser = Parser_new
    /\ pending = <<>>
    /\ consumed = <<>>
    /\ signals = <<>>
    /\ KeyIdle

\* spawn_shell in the host process: fork()?, then the Parent branch
ForkShell(outcome) ==
    /\ pc = "start_shell"
    /\ status = "running"
    /\ CASE outcome = "fork_err" ->
              /\ pc' = "returned_err"
              /\ UNCHANGED <<pty, child>>
         [] outcome = "close_err" ->
              /\ pty' = Pty_forked_only
              /\ child' = "forked"
              /\ pc' = "returned_err"
         [] outcome = "ok" ->
              /\ pty' = Pty_spawned
              /\ child' = "forked"
              /\ pc' = "select"
    /\ UNCHANGED <<screenVars, ready, lastIo, written, streamVars, signals, keyVars>>

\* the Child branch up to execve: setsid, close, dup2, set_current_dir, the
\* CStrings; each `?` returns Err from spawn_shell
ChildSetup(ok) ==
    /\ child = "forked"
    /\ child' = IF ok THEN "execve" ELSE "returned:setup"
    /\ UNCHANGED <<screenVars, pty, pc, ready, lastIo, written, streamVars, signals, keyVars>>

\* execve(..)?: the shell replaces the child, or Err is returned from
\* spawn_shell; process::exit(1) follows an Ok that execve never gives
ChildExecve(ok) ==
    /\ child = "execve"
    /\ child' = IF ok THEN "running" ELSE "returned:execve"
    /\ UNCHANGED <<screenVars, pty, pc, ready, lastIo, written, streamVars, signals, keyVars>>

\* in the child process the Err goes up through start_shell and main, which
\* drops the child's copy of the Pty (child_pid None) and exits with status 1
ChildMainReturns ==
    /\ child \in {"returned:setup", "returned:execve"}
    /\ child' = "exited:1"
    /\ signals' = IF Pty_drop(Pty_new).kill THEN Append(signals, "SIGTERM") ELSE signals
    /\ UNCHANGED <<screenVars, pty, pc, ready, lastIo, written, streamVars, keyVars>>

\* main returns in the host process: the Terminal and its Pty are dropped
DropPty ==
    /\ pc \in {"returned_ok", "returned_err"}
    /\ pc' = "dropped"
    /\ signals' = IF Pty_drop(pty).kill THEN Append(signals, "SIGTERM") ELSE signals
    /\ child' = IF Pty_drop(pty).waits THEN "reaped" ELSE child
    /\ UNCHANGED <<screenVars, pty, ready, lastIo, written, streamVars, keyVars>>

NextMain ==
    \/ \E outcome \in {"fork_err", "close_err", "ok"} : ForkShell(outcome)
    \/ \E ok \in BOOLEAN : ChildSetup(ok)
    \/ \E ok \in BOOLEAN : ChildExecve(ok)
    \/ ChildMainReturns
    \/ NextLoop
    \/ DropPty

SpecMain == InitMain /\ [][NextMain]_vars

\* C28: dropping a Pty that spawned a child sends SIGTERM to the child exactly
\* once and does not wait for it; dropping a Pty that never spawned a child
\* sends nothing; no signal is sent before the drop.
C28_DropSendsSigtermOnce ==
    /\ pc # "dropped" => signals = <<>>
    /\ pc = "dropped" =>
          /\ signals = (IF pty.child_pid = "Some" THEN <<"SIGTERM">> ELSE <<>>)
          /\ child # "reaped"

\* the Pty was dropped while the shell was still running
C28_Witness ==
    /\ pc = "dropped"
    /\ pty = Pty_spawned
    /\ child = "running"
    /\ signals = <<"SIGTERM">>

\* C29: when execve fails, the forked child does not return from spawn_shell
\* into the caller's code.
C29_ExecveFailureNeverReturns == child # "returned:execve"

(***************************************************************************)
(* Five lines written to a fresh 3 x 3 screen.                             *)
(***************************************************************************)
\* a LF b LF c LF d LF e, and the same lines ended by CR LF
ScriptLf == <<97, LF, 98, LF, 99, LF, 100, LF, 101>>
ScriptCrLf == <<97, CR, LF, 98, CR, LF, 99, CR, LF, 100, CR, LF, 101>>

InitScript ==
    /\ performer \in {TerminalPerformer_new(3, 3, cfg) : cfg \in Configs}
    /\ status = "running"
    /\ steps = 0
    /\ last = "new"
    /\ snap = <<>>
    /\ lastResize = <<>>
    /\ pty = Pty_spawned
    /\ child = "running"
    /\ pc = "select"
    /\ ready = <<>>
    /\ lastIo = IoNone
    /\ written = <<>>
    /\ parser = Parser_new
    /\ pending \in {ScriptLf, ScriptCrLf}
    /\ consumed = <<>>
    /\ signals = <<>>
    /\ KeyIdle

SpecScript == InitScript /\ [][NextStream]_vars

RowHas(row, ch) == \E i \in 1..Len(row) : row[i].c = ch

\* C30: after a LF b LF c LF d LF e on a fresh 3 x 3 screen with autowrap on
\* (scrollback limit at least 2), the scrollback holds exactly the two rows
\* with a and b and the visible rows hold c, d, e in that order.
C30_FiveLinesScrollTwice ==
    (/\ consumed = ScriptLf
     /\ pending = <<>>
     /\ performer.grid.scrollback_limit >= 2) =>
        /\ Len(performer.grid.scrollback) = 2
        /\ RowHas(performer.grid.scrollback[1], "a")
        /\ RowHas(performer.grid.scrollback[2], "b")
        /\ RowHas(performer.grid.cells[1], "c")
        /\ RowHas(performer.grid.cells[2], "d")
        /\ RowHas(performer.grid.cells[3], "e")

(***************************************************************************)
(* Sequences of SGR values: CSI m alone, from several renditions.          *)
(***************************************************************************)
\* single attribute values, pairs applied in order, and the extended-colour
\* forms 38;5;N, 38;2;R;G;B, 48;5;N, 48;2;R;G;B
SgrSequences ==
    {<<0>>, <<1>>, <<2>>, <<3>>, <<4>>, <<5>>, <<7>>, <<8>>, <<9>>,
     <<0, 1>>, <<1, 0>>, <<1, 4>>,
     <<38, 5, 1>>, <<38, 2, 1, 4, 7>>, <<48, 5, 3>>, <<48, 2, 9, 9, 9>>}

NextSgr == \E params \in SgrSequences : PerformCsi(params, "m")

SpecSgr == InitRendition /\ [][NextSgr]_vars

\* C31: after 38 (or 48) the following values are colour arguments: 38;5;N
\* sets the foreground to indexed colour N, 38;2;R;G;B to the colour
\* (R, G, B), 48 likewise for the background; the flags and the other colour
\* are unchanged.
C31_ExtendedColourArguments ==
    [][\A params \in SgrSequences :
          (Len(params) >= 3 /\ PerformCsi(params, "m")) =>
              /\ performer'.current_flags = performer.current_flags
              /\ params[1] = 38 =>
                    /\ performer'.current_bg = performer.current_bg
                    /\ params[2] = 5 => performer'.current_fg = Palette[params[3] + 1]
                    /\ params[2] = 2 =>
                          performer'.current_fg = <<params[3], params[4], params[5]>>
              /\ params[1] = 48 =>
                    /\ performer'.current_fg = performer.current_fg
                    /\ params[2] = 5 => performer'.current_bg = Palette[params[3] + 1]
                    /\ params[2] = 2 =>
                          performer'.current_bg = <<params[3], params[4], params[5]>>]_vars

\* the flag an SGR value stands for
FlagOf(n) ==
    CASE n = 1 -> "BOLD" [] n = 2 -> "DIM" [] n = 3 -> "ITALIC" [] n = 4 -> "UNDERLINE"
      [] n = 5 -> "BLINK" [] n = 7 -> "REVERSE" [] n = 8 -> "HIDDEN" [] n = 9 -> "STRIKE"

\* C32: each SGR value 1, 2, 3, 4, 5, 7, 8, 9 sets its flag (BOLD, DIM,
\* ITALIC, UNDERLINE, BLINK, REVERSE, HIDDEN, STRIKE), leaving the other flags
\* and both colours unchanged; the values of one sequence apply left to right.
C32_SgrSetsItsFlag ==
    [][/\ \A n \in {1, 2, 3, 4, 5, 7, 8, 9} :
             PerformCsi(<<n>>, "m") =>
                 /\ performer'.current_flags = performer.current_flags \cup {FlagOf(n)}
                 /\ performer'.current_fg = performer.current_fg
                 /\ performer'.current_bg = performer.current_bg
       /\ PerformCsi(<<0, 1>>, "m") => performer'.current_flags = {"BOLD"}
       /\ PerformCsi(<<1, 0>>, "m") => performer'.current_flags = {}
       /\ PerformCsi(<<1, 4>>, "m") =>
             performer'.current_flags = performer.current_flags \cup {"BOLD", "UNDERLINE"}]_vars

\* the cells of p.grid with those the predicate InRange(r, i) selects (0-based
\* row and column) replaced by the default Cell
ErasedWhere(p, InRange(_, _)) ==
    [r \in 1..Len(p.grid.cells) |->
        [i \in 1..Len(p.grid.cells[r]) |->
            IF InRange(r - 1, i - 1) THEN ErasedCell ELSE p.grid.cells[r][i]]]

\* what CSI P J has to leave in the grid and the scrollback of p
EraseInDisplay(p, P) ==
    LET at(r, i) == r * p.grid.cols + i
        cur == at(p.cursor.row, p.cursor.col)
        FromCursor(r, i) == at(r, i) >= cur
        ToCursor(r, i) == at(r, i) <= cur
        All(r, i) == TRUE
    IN  CASE P = 0 -> [cells |-> ErasedWhere(p, FromCursor), scrollback |-> p.grid.scrollback]
          [] P = 1 -> [cells |-> ErasedWhere(p, ToCursor), scrollback |-> p.grid.scrollback]
          [] P = 2 -> [cells |-> ErasedWhere(p, All), scrollback |-> p.grid.scrollback]
          [] P = 3 -> [cells |-> ErasedWhere(p, All), scrollback |-> <<>>]

\* C33: CSI 0 J erases from the cursor to the end of the screen, CSI 1 J
\* from the start of the screen through the cursor, CSI 2 J the whole grid,
\* CSI 3 J the whole grid and the scrollback; every other cell, the cursor and
\* the grid dimensions are unchanged.
C33_EraseInDisplayRanges ==
    [][\A P \in 0..3 :
          PerformCsi(<<P>>, "J") =>
              /\ performer'.grid.cells = EraseInDisplay(performer, P).cells
              /\ performer'.grid.scrollback = EraseInDisplay(performer, P).scrollback
              /\ performer'.cursor = performer.cursor
              /\ performer'.grid.rows = performer.grid.rows
              /\ performer'.grid.cols = performer.grid.cols]_vars

(***************************************************************************)
(* Cursor positioning: CSI H and CSI f alone, on grids up to               *)
(* MaxRows x MaxCols and on a 10 x 10 grid.                                *)
(***************************************************************************)
PositionSequences ==
    {<<>>, <<0>>, <<0, 0>>, <<1>>, <<2>>, <<0, 2>>, <<2, 0>>, <<2, 2>>, <<1, 3>>, <<3, 1>>,
     <<5, 5>>, <<10, 11>>, <<MaxParam, MaxParam>>}

InitPosition ==
    /\ performer \in
          {TerminalPerformer_new(sz[1], sz[2],
               [foreground |-> White, background |-> Black,
                scrollback_lines |-> MaxLimit, cursor_shape |-> "Block"]) :
              sz \in ((1..MaxRows) \X (1..MaxCols)) \cup {<<10, 10>>}}
    /\ status = "running"
    /\ steps = 0
    /\ last = "new"
    /\ snap = <<>>
    /\ lastResize = <<>>
    /\ LoopIdle
    /\ KeyIdle

NextPosition ==
    \E c \in {"H", "f"} : \E params \in PositionSequences : PerformCsi(params, c)

SpecPosition == InitPosition /\ [][NextPosition]_vars

\* a parameter of a cursor position: missing or 0 counts as 1
PositionParam(params, k) == IF Len(params) >= k /\ params[k] # 0 THEN params[k] ELSE 1

\* C34: CSI P1;P2 H and CSI P1;P2 f put the cursor at
\* (min(P1 - 1, rows - 1), min(P2 - 1, cols - 1)), a missing or zero
\* parameter counting as 1; nothing else of the screen changes.
C34_CursorPosition ==
    [][\A c \in {"H", "f"} : \A params \in PositionSequences :
          PerformCsi(params, c) =>
              /\ performer'.cursor.row =
                    Min(PositionParam(params, 1) - 1, performer.grid.rows - 1)
              /\ performer'.cursor.col =
                    Min(PositionParam(params, 2) - 1, performer.grid.cols - 1)
              /\ performer'.grid = performer.grid]_vars

\* CSI 5;5 H (or f) on the 10 x 10 grid put the cursor at (4, 4)
C34_Witness ==
    /\ last = "csi"
    /\ performer.grid.rows = 10 /\ performer.grid.cols = 10
    /\ performer.cursor.row = 4 /\ performer.cursor.col = 4

\* fresh terminals of every size up to MaxRows x MaxCols
InitSizes ==
    /\ performer \in
          {TerminalPerformer_new(r, c,
               [foreground |-> White, background |-> Black,
                scrollback_lines |-> MaxLimit, cursor_shape |-> "Block"]) :
              r \in 1..MaxRows, c \in 1..MaxCols}
    /\ status = "running"
    /\ steps = 0
    /\ last = "new"
    /\ snap = <<>>
    /\ lastResize = <<>>
    /\ LoopIdle
    /\ KeyIdle

(***************************************************************************)
(* Grid::resize among the calls that give a grid content and a scrollback: *)
(* writes to cells and one-line scroll-ups.                                *)
(***************************************************************************)
NextGridResize ==
    \/ \E new_rows \in 1..MaxRows, new_cols \in 1..MaxCols : GridResize(new_rows, new_cols)
    \/ GridScrollUp(1)
    \/ \E row \in 0..(MaxRows - 1), col \in 0..(MaxCols - 1) :
          GridSetCell(row, col, "A")

SpecGridResize == InitSizes /\ [][NextGridResize]_vars

\* C35: Grid::resize(new_rows, new_cols) keeps every cell (r, c) with
\* r < min(rows, new_rows) and c < min(cols, new_cols), makes every newly
\* exposed cell the default Cell, drops or adds rows at the bottom only, and
\* leaves the scrollback (its length and the widths of its rows) as it was.
C35_ResizePreservesContent ==
    [][\A new_rows \in 1..MaxRows : \A new_cols \in 1..MaxCols :
          GridResize(new_rows, new_cols) =>
              LET old == performer.grid
                  new == performer'.grid
              IN  /\ Len(new.cells) = new_rows
                  /\ \A r \in 1..new_rows :
                        /\ Len(new.cells[r]) = new_cols
                        /\ \A c \in 1..new_cols :
                              new.cells[r][c] =
                                 IF r <= old.rows /\ c <= old.cols
                                 THEN old.cells[r][c]
                                 ELSE DefaultCell
                  /\ new.scrollback = old.scrollback
                  /\ new.scrollback_limit = old.scrollback_limit]_vars

\* a grid that had scrolled and was written to has grown in both dimensions:
\* the written cell is still in place and the scrollback row kept its width
C35_Witness ==
    /\ last = "resize"
    /\ performer.grid.rows = MaxRows
    /\ performer.grid.cols = MaxCols
    /\ performer.grid.cells[1][1].c = "A"
    /\ performer.grid.cells[MaxRows][MaxCols] = DefaultCell
    /\ Len(performer.grid.scrollback) = 1
    /\ Len(performer.grid.scrollback[1]) < MaxCols

\* C36: under every interleaving of Terminal::resize calls and parser
\* events, print, CSI J and CSI K index the grid only with row < |cells| and
\* col < |cells[row]|: none of them ends the process with an
\* index-out-of-bounds panic.
C36_NoOutOfBoundsAccess == ~(status = "panicked" /\ last \in {"print", "csi"})

\* C37: after any interleaving of Grid::scroll_up, Grid::resize and
\* Grid::scroll_down, cells holds exactly rows rows and every row holds
\* exactly cols cells, the rows that scroll_down brings back from the
\* scrollback included.
C37_ShapeAfterScrollDown ==
    status = "running" =>
        /\ Len(performer.grid.cells) = performer.grid.rows
        /\ \A r \in 1..Len(performer.grid.cells) :
              Len(performer.grid.cells[r]) = performer.grid.cols

(***************************************************************************)
(* Terminal::resize together with the Winsize its ioctl carries: lastIo    *)
(* records the TIOCSWINSZ request and whether the system call succeeded.   *)
(***************************************************************************)
TerminalResizeIoctl(width, height, ioctl_ok) ==
    /\ Apply(FALSE, Terminal_resize(performer, width, height, ioctl_ok),
             IF ioctl_ok THEN "resize" ELSE "resize_err")
    /\ lastIo' = [op |-> "ioctl",
                  os |-> IF ioctl_ok THEN "ok" ELSE "error",
                  result |-> Pty_resize(resize_cols(width), resize_rows(height))]
    /\ lastResize' = IF ioctl_ok
                     THEN <<resize_rows(height), resize_cols(width)>>
                     ELSE lastResize
    /\ UNCHANGED <<snap, pty, child, pc, ready, written, streamVars, signals, keyVars>>

NextWinsize ==
    \/ PerformPrint("A")
    \/ \E width \in PixelWidths, height \in PixelHeights, ioctl_ok \in BOOLEAN :
          TerminalResizeIoctl(width, height, ioctl_ok)

SpecWinsize == InitSizes /\ [][NextWinsize]_vars

\* C38: Terminal::resize is all-or-nothing with respect to the PTY: when the
\* TIOCSWINSZ ioctl fails the error is returned and the rows, cols and cells
\* of the grid are unchanged; when it succeeds the rows and cols of the grid
\* are the ws_row and ws_col sent to the PTY.
C38_ResizeAllOrNothing ==
    [][\A width \in PixelWidths : \A height \in PixelHeights :
          /\ TerminalResizeIoctl(width, height, FALSE) =>
                /\ last' = "resize_err"
                /\ performer'.grid.rows = performer.grid.rows
                /\ performer'.grid.cols = performer.grid.cols
                /\ performer'.grid.cells = performer.grid.cells
          /\ TerminalResizeIoctl(width, height, TRUE) =>
                /\ last' = "resize"
                /\ performer'.grid.rows = lastIo'.result.ws_row
                /\ performer'.grid.cols = lastIo'.result.ws_col]_vars

\* after a print and a resize that succeeded, a resize to another size has
\* failed: the grid still has the size of the first and the printed cell
C38_Witness ==
    /\ last = "resize_err"
    /\ lastIo.op = "ioctl" /\ lastIo.os = "error"
    /\ lastResize # <<>>
    /\ performer.grid.rows = lastResize[1]
    /\ performer.grid.cols = lastResize[2]
    /\ lastIo.result.ws_col # performer.grid.cols
    /\ lastIo.result.ws_row # performer.grid.rows
    /\ performer.grid.rows >= 1 /\ performer.grid.cols >= 1
    /\ performer.grid.cells[1][1].c = "A"

(***************************************************************************)
(* The event loop with the host's input: the window system delivers key    *)
(* presses and window configures, which Display::next_event dispatches to  *)
(* the handlers of WaylandState while the loop waits in select.            *)
(***************************************************************************)
MaxInputs == 1
HostInputs ==
    {<<"Key", Key_new(Char(97), {})>>, <<"Resize", CellWidth * LoopCols, CellHeight>>}

\* event_sender.send(ev): the event is queued for the Receiver when there is
\* one; with the Receiver dropped send returns Err, which `let _ =` discards
crossbeam_send(ch, ev) ==
    [ch EXCEPT !.offered = Append(@, ev),
               !.queue = IF ch.receiver = "dropped" THEN @ ELSE Append(@, ev)]

\* KeyboardHandler::press_key for a key that wayland_key_to_key maps to key
PressKey(k) ==
    /\ pc = "select"
    /\ status = "running"
    /\ Len(channel.offered) < MaxInputs
    /\ channel' = crossbeam_send(channel, <<"Key", k>>)
    /\ UNCHANGED <<screenVars, loopVars, key, encoded, overflow_checks, binding, parsed, color>>

\* WindowHandler::configure with a new size
Configure(width, height) ==
    /\ pc = "select"
    /\ status = "running"
    /\ Len(channel.offered) < MaxInputs
    /\ channel' = crossbeam_send(channel, <<"Resize", width, height>>)
    /\ UNCHANGED <<screenVars, loopVars, key, encoded, overflow_checks, binding, parsed, color>>

NextHost ==
    \/ NextLoop
    \/ \E ev \in {e \in HostInputs : e[1] = "Key"} : PressKey(ev[2])
    \/ \E ev \in {e \in HostInputs : e[1] = "Resize"} : Configure(ev[2], ev[3])

SpecHost == InitLoop /\ [][NextHost]_vars

\* the runtime keeps polling the task: the loop takes a step whenever it can
FairSpecHost == SpecHost /\ WF_vars(LoopStep)

\* C39: every input the window system produces (a key press that maps to a
\* Key, a window configure with a new size) is eventually returned by
\* Display::next_event as Event::Key or Event::Resize, and so reaches the
\* event loop.
C39_HostInputReachesLoop ==
    \A ev \in HostInputs :
        (\E i \in 1..Len(channel.offered) : channel.offered[i] = ev)
            ~> (ready = <<"display", ev>>)

\* C40: for every configured foreground and background, the blank cells an
\* erase (CSI J, CSI K) produces have fg = default_fg and bg = default_bg of
\* the terminal, the colours SGR 0 restores for printed cells.
C40_BlankCellsUseConfiguredColours ==
    [][Erase =>
          \A r \in 1..Len(performer.grid.cells) :
              \A i \in 1..Len(performer.grid.cells[r]) :
                  \/ performer'.grid.cells[r][i] = performer.grid.cells[r][i]
                  \/ /\ performer'.grid.cells[r][i].fg = performer.default_fg
                     /\ performer'.grid.cells[r][i].bg = performer.default_bg]_vars

====
